---- MODULE Spec2Model ----
(***************************************************************************)
(* wproxy: the size-bounded LRU/TTL response cache (internal/cache), the  *)
(* per-key token-bucket rate limiter (internal/ratelimit) and the request  *)
(* pipeline built around them (createProxyHandler, handleProxy).           *)
(*                                                                         *)
(* SpecCache   : the memoryCache store under Get/Set/Delete/Clear and the  *)
(*               passage of time.  Every operation runs under c.mu, so     *)
(*               each call is one atomic step.                             *)
(* SpecLimiter : the tokenBucket limiter under concurrent Allow and Wait   *)
(*               calls and the cleanup goroutine.  A call is split at the  *)
(*               point where it releases tb.mu and takes b.mu.             *)
(*               Tokens move on an exact grid of 1/TokenUnit token.        *)
(* SpecFloat   : one goroutine calling Allow on one key of a tokenBucket,  *)
(*               with tokens held as the float64 values the code computes. *)
(* SpecAlias   : the store of SpecCache together with a caller that       *)
(*               writes to the *Entry values it passed in or got back.     *)
(* SpecPipeline: requests, one at a time, through the middleware chain and *)
(*               handleProxy, over a store and a limiter.                  *)
(* SpecStop    : a tokenBucket with its cleanup goroutine running on the   *)
(*               ticker, Allow calls, and Stop.                            *)
(* SpecPolicy  : calls of CacheKey, IsCacheable, ParseTTL, IPKeyExtractor *)
(*               and APIKeyExtractor on header values, paths and addresses *)
(*               held as sequences of symbols.                             *)
(* SpecSweep   : SpecStop with the ticker and the cleanup goroutine        *)
(*               scheduled fairly.                                         *)
(* SpecLocks   : Allow, Wait and cleanup split at every Lock, RLock and    *)
(*               Unlock of tb.mu and of the buckets' b.mu, the goroutines  *)
(*               and the mutexes scheduled fairly.                         *)
(* SpecRate    : SpecStop with every key's admissions counted.             *)
(* SpecRevalidate: SpecPipeline in front of an upstream that answers a     *)
(*               conditional request 304.                                  *)
(* SpecRequestIDs: SpecPipeline with the ids of consecutive requests told  *)
(*               apart.                                                    *)
(***************************************************************************)
EXTENDS Integers, Sequences, FiniteSets

(* ------------------------------ bounds -------------------------------- *)

\* Largest max_size a store is constructed with.
MaxCap == 2

\* Largest Entry.Size handed to Set (one more than MaxCap: an entry that
\* cannot fit on its own).
MaxEntrySize == 3

\* Last instant of the cache clock.
MaxCacheTime == 2

Keys == {"k1", "k2", "k3"}

Bodies == {"x", "y"}

\* Entry (cache.go:16-24): Size, ExpiresAt and the payload (StatusCode and
\* Body, which the store never inspects, as one opaque value).
Entries == [Size : 1..MaxEntrySize, ExpiresAt : 1..MaxCacheTime, Body : Bodies]

NoEntry == [Size |-> 0, ExpiresAt |-> 0, Body |-> "nil"]

VARIABLES
  c,        \* the memoryCache: maxSize, size, items (keys of the map), lru (front first)
  now,      \* the clock read by time.Now()
  ret,      \* what the last call returned
  recency,  \* history: present keys by last use (successful Get, or Set), latest first
  tb,       \* the tokenBucket: rate, burst, buckets (key -> bucket address or Nil)
  heap,     \* bucket objects by address
  th,       \* the goroutines calling Allow/Wait: pc, key and the *bucket they hold
  hist,     \* history of the limiter, per bucket and per key
  fb,       \* a tokenBucket with the one bucket of one key, tokens as a float64
  px,       \* the request pipeline: configuration, the request in flight, its response
  pf        \* the last call of a policy function or key extractor: arguments and result

cacheVars == <<c, ret, recency>>

limiterVars == <<tb, heap, th, hist, fb>>

vars == <<c, now, ret, recency, tb, heap, th, hist, fb, px, pf>>

(* ------------------------------ cache --------------------------------- *)

RECURSIVE SumSizes(_)
SumSizes(s) == IF s = <<>> THEN 0 ELSE Head(s).entry.Size + SumSizes(Tail(s))

KeysOf(s) == {s[i].key : i \in 1..Len(s)}

\* list.Remove(elem)
RemoveAt(s, i) == SubSeq(s, 1, i - 1) \o SubSeq(s, i + 1, Len(s))

\* c.items[key]: the list element the map holds for key
ElemOf(cc, k) == CHOOSE i \in 1..Len(cc.lru) : cc.lru[i].key = k

\* list.MoveToFront(elem)
MoveToFrontNoop(s, i) == s

MoveToFront(s, i) == <<s[i]>> \o RemoveAt(s, i)

\* list.PushFront(item)
PushFront(s, it) == <<it>> \o s

\* list.Back()
LruBackIsFront(s) == 1

LruBack(s) == Len(s)

\* deleteElement (cache.go:148-153)
deleteElementKeepsSize(cc, i) ==
  [cc EXCEPT !.items = @ \ {cc.lru[i].key}, !.lru = RemoveAt(@, i)]

deleteElement(cc, i) ==
  [cc EXCEPT !.items = @ \ {cc.lru[i].key},
             !.lru = RemoveAt(@, i),
             !.size = @ - cc.lru[i].entry.Size]

\* the eviction loop's condition (cache.go:105)
OverLimitOffByOne(cc) == cc.size > cc.maxSize + 1 /\ Len(cc.lru) > 0

OverLimit(cc) == cc.size > cc.maxSize /\ Len(cc.lru) > 0

\* an eviction that removed one entry at most
EvictLoopOnce(cc, ev) ==
  IF OverLimit(cc)
    THEN [c |-> deleteElement(cc, LruBack(cc.lru)),
          ev |-> Append(ev, cc.lru[LruBack(cc.lru)].key)]
    ELSE [c |-> cc, ev |-> ev]

\* the eviction loop (cache.go:105-110); ev collects the evicted keys in order
RECURSIVE EvictLoop(_, _)
EvictLoop(cc, ev) ==
  IF OverLimit(cc)
    THEN EvictLoop(deleteElement(cc, LruBack(cc.lru)),
                   Append(ev, cc.lru[LruBack(cc.lru)].key))
    ELSE [c |-> cc, ev |-> ev]

\* a Set that updated a present key where it stands in the list
InsertInPlace(cc, k, e) ==
  IF k \in cc.items
    THEN LET i == ElemOf(cc, k)
         IN [cc EXCEPT !.size = (@ - cc.lru[i].entry.Size) + e.Size,
                       !.lru = [cc.lru EXCEPT ![i].entry = e]]
    ELSE [cc EXCEPT !.lru = PushFront(@, [key |-> k, entry |-> e]),
                    !.items = @ \cup {k},
                    !.size = @ + e.Size]

\* Set before the eviction loop (cache.go:90-102)
Insert(cc, k, e) ==
  IF k \in cc.items
    THEN LET i == ElemOf(cc, k)
             upd == [cc.lru EXCEPT ![i].entry = e]
         IN [cc EXCEPT !.size = (@ - cc.lru[i].entry.Size) + e.Size,
                       !.lru = MoveToFront(upd, i)]
    ELSE [cc EXCEPT !.lru = PushFront(@, [key |-> k, entry |-> e]),
                    !.items = @ \cup {k},
                    !.size = @ + e.Size]

\* time.Now().After(item.entry.ExpiresAt) (cache.go:74)
Expired(e, t) == t > e.ExpiresAt

\* a Get that reports an expired entry as a miss and leaves it in the store
GetStepKeepsExpired(cc, t, k) ==
  IF k \notin cc.items
    THEN [c |-> cc, ok |-> FALSE, entry |-> NoEntry]
    ELSE LET i == ElemOf(cc, k)
         IN IF Expired(cc.lru[i].entry, t)
              THEN [c |-> cc, ok |-> FALSE, entry |-> NoEntry]
              ELSE [c |-> [cc EXCEPT !.lru = MoveToFront(@, i)],
                    ok |-> TRUE, entry |-> cc.lru[i].entry]

\* Get (cache.go:62-82): the store it leaves and the pair it returns
GetStep(cc, t, k) ==
  IF k \notin cc.items
    THEN [c |-> cc, ok |-> FALSE, entry |-> NoEntry]
    ELSE LET i == ElemOf(cc, k)
         IN IF Expired(cc.lru[i].entry, t)
              THEN [c |-> deleteElement(cc, i), ok |-> FALSE, entry |-> NoEntry]
              ELSE [c |-> [cc EXCEPT !.lru = MoveToFront(@, i)],
                    ok |-> TRUE, entry |-> cc.lru[i].entry]

\* history: k used now
Touch(r, k) == <<k>> \o SelectSeq(r, LAMBDA x : x # k)

\* history: only the keys still present
Present(r, S) == SelectSeq(r, LAMBDA x : x \in S)

\* Size() and Len() (cache.go:134-145)
CacheSize == c.size

CacheLen == Len(c.lru)

NewMemoryCache(m) == [maxSize |-> m, size |-> 0, items |-> {}, lru |-> <<>>]

\* had: history, whether the key of a Get or Set was present when it was called
NoRet ==
  [op |-> "none", key |-> "", ok |-> FALSE, entry |-> NoEntry, evicted |-> <<>>,
   had |-> FALSE]

Get(k) ==
  LET g == GetStep(c, now, k)
  IN /\ c' = g.c
     /\ ret' = [op |-> "Get", key |-> k, ok |-> g.ok, entry |-> g.entry, evicted |-> <<>>,
                had |-> k \in c.items]
     /\ recency' = Present(IF g.ok THEN Touch(recency, k) ELSE recency, g.c.items)
     /\ UNCHANGED <<now, limiterVars, px, pf>>

Set(k, e) ==
  LET r == EvictLoop(Insert(c, k, e), <<>>)
  IN /\ c' = r.c
     /\ ret' = [op |-> "Set", key |-> k, ok |-> TRUE, entry |-> e, evicted |-> r.ev,
                had |-> k \in c.items]
     /\ recency' = Present(Touch(recency, k), r.c.items)
     /\ UNCHANGED <<now, limiterVars, px, pf>>

Delete(k) ==
  /\ c' = IF k \in c.items THEN deleteElement(c, ElemOf(c, k)) ELSE c
  /\ ret' = [NoRet EXCEPT !.op = "Delete", !.key = k]
  /\ recency' = Present(recency, c.items \ {k})
  /\ UNCHANGED <<now, limiterVars, px, pf>>

\* a Clear that left the byte counter as it was
ClearKeepsSize ==
  /\ c' = [c EXCEPT !.items = {}, !.lru = <<>>]
  /\ ret' = [NoRet EXCEPT !.op = "Clear"]
  /\ recency' = <<>>
  /\ UNCHANGED <<now, limiterVars, px, pf>>

Clear ==
  /\ c' = [c EXCEPT !.items = {}, !.lru = <<>>, !.size = 0]
  /\ ret' = [NoRet EXCEPT !.op = "Clear"]
  /\ recency' = <<>>
  /\ UNCHANGED <<now, limiterVars, px, pf>>

CacheTick ==
  /\ now < MaxCacheTime
  /\ now' = now + 1
  /\ UNCHANGED <<cacheVars, limiterVars, px, pf>>

(* Get returns item.entry and Set stores the *Entry it is given (cache.go:81, *)
(* 93, 98): the caller and the store then share one Entry object, and a     *)
(* write through the caller's pointer is a write to the stored entry.       *)

\* the store after the Entry object stored under k was overwritten with e2
\* through a pointer held outside the store: c.size is not touched
WriteThrough(cc, k, e2) == [cc EXCEPT !.lru[ElemOf(cc, k)].entry = e2]

\* c.size still agrees with the stored entries: the caller's writes are taken
\* one drift at a time, which keeps the counter in a finite range
NoDrift == CacheSize = SumSizes(c.lru)

\* the caller modifies the Entry the last Get returned
MutateReturned(e2) ==
  /\ NoDrift
  /\ ret.op = "Get" /\ ret.ok
  /\ ret.key \in c.items
  /\ c.lru[ElemOf(c, ret.key)].entry # e2
  /\ c' = WriteThrough(c, ret.key, e2)
  /\ UNCHANGED <<now, ret, recency, limiterVars, px, pf>>

\* the caller modifies an Entry it passed to Set earlier and that is still stored
MutatePassed(k, e2) ==
  /\ NoDrift
  /\ k \in c.items
  /\ c.lru[ElemOf(c, k)].entry # e2
  /\ c' = WriteThrough(c, k, e2)
  /\ UNCHANGED <<now, ret, recency, limiterVars, px, pf>>

(* --------------------------- cache properties ------------------------- *)

\* the step is a call of Set, of the key and entry its result records
IsSet == ret'.op = "Set" /\ Set(ret'.key, ret'.entry)

\* position of key k in a use history (1 = latest use)
PosIn(r, k) == CHOOSE i \in 1..Len(r) : r[i] = k

\* C1: in every reachable state Size() is the sum of the Size fields of exactly
\* the entries present in the map, and Len() is the number of those entries.
C1_Accounting ==
  /\ KeysOf(c.lru) = c.items
  /\ CacheLen = Cardinality(c.items)
  /\ CacheSize = SumSizes(c.lru)

\* C1 witness: a Set has evicted and two entries remain accounted for.
C1_Witness ==
  /\ ret.op = "Set"
  /\ ret.evicted # <<>>
  /\ Cardinality(c.items) = 2
  /\ CacheSize = 2

\* C2: with non-negative entry sizes, Size() <= max_size after every mutating
\* operation has returned (every state of the store is such a state).
C2_SizeBound == CacheSize <= c.maxSize

\* C2 witness: a Set that had to evict left the store exactly full.
C2_Witness ==
  /\ ret.op = "Set"
  /\ Len(ret.evicted) = 2
  /\ CacheSize = c.maxSize

\* C3: a Set evicts the least recently used entries, in order of last use (a use
\* is a successful Get or a Set); an entry used more recently than another one
\* that stays is never evicted.
C3_LruOrder ==
  [][IsSet =>
         LET post == Touch(recency, ret'.key)
             ev == ret'.evicted
         IN /\ Len(ev) <= Len(post)
            /\ \A i \in 1..Len(ev) : ev[i] = post[Len(post) + 1 - i]
            /\ \A i \in 1..Len(ev) : \A b \in c'.items :
                 PosIn(post, b) < PosIn(post, ev[i])
            /\ [i \in 1..Len(c'.lru) |-> c'.lru[i].key] = recency']_vars

\* C3 witness: a Set evicted one other entry while a more recently used one
\* stayed in the store.
C3_Witness ==
  /\ ret.op = "Set"
  /\ Len(ret.evicted) = 1
  /\ Len(c.lru) = 2
  /\ ret.evicted[1] # ret.key

\* C4 (as claimed): Get(k) on a stored entry returns it at every t < expires_at
\* and returns absent at every t >= expires_at, t = expires_at included.
C4_TTL ==
  [][\A k \in Keys :
       (Get(k) /\ k \in c.items) =>
         LET e == c.lru[ElemOf(c, k)].entry
         IN /\ (now < e.ExpiresAt) => (ret'.ok /\ ret'.entry = e)
            /\ (now >= e.ExpiresAt) => ~ret'.ok]_vars

\* C5 (as claimed): after Set(k, e) with e unexpired, whatever e.Size is, an
\* immediate Get(k) returns e.
C5_SetThenGet ==
  [][(IsSet /\ now < ret'.entry.ExpiresAt) =>
         LET g == GetStep(c', now', ret'.key)
         IN g.ok /\ g.entry = ret'.entry]_vars

\* C5 (amended): after Set(k, e) with e unexpired and e.Size <= max_size, an
\* immediate Get(k) returns e and k is not among the evicted keys; when
\* e.Size > max_size the Set evicts e too, the store ends empty and Get(k) misses.
C5_SetThenGetFits ==
  [][(IsSet /\ now < ret'.entry.ExpiresAt) =>
         LET k == ret'.key
             e == ret'.entry
             g == GetStep(c', now', k)
         IN IF e.Size <= c.maxSize
              THEN /\ g.ok
                   /\ g.entry = e
                   /\ \A i \in 1..Len(ret'.evicted) : ret'.evicted[i] # k
              ELSE /\ ~g.ok
                   /\ c'.items = {}]_vars

\* C5 witness: a Set of a fitting, unexpired entry evicted another key and the
\* new entry is in the store.
C5_Witness ==
  /\ ret.op = "Set"
  /\ ret.evicted # <<>>
  /\ ret.entry.Size <= c.maxSize
  /\ now < ret.entry.ExpiresAt
  /\ ret.key \in c.items
  /\ c.lru[1] = [key |-> ret.key, entry |-> ret.entry]

\* C28: after Clear, Len() = 0 and Size() = 0, Get misses for every key, and
\* the store is in the state of a newly constructed store of the same
\* max_size, so that every later Set and Get behaves as on a new store.
C28_Clear ==
  ret.op = "Clear" =>
    /\ CacheLen = 0 /\ CacheSize = 0
    /\ \A k \in Keys : ~GetStep(c, now, k).ok
    /\ c = NewMemoryCache(c.maxSize)

\* C28 witness: Clear has returned on the largest store, the clock having
\* advanced.
C28_Witness ==
  /\ ret.op = "Clear"
  /\ c.maxSize = MaxCap
  /\ now > 0

\* C29 (as claimed): a Set on a present key leaves Len() as it was, changes
\* Size() by e.Size minus the old Size before any eviction, makes the key the
\* most recently used, and a following Get returns e.
C29_Replace ==
  [][(IsSet /\ ret'.key \in c.items) =>
         LET k == ret'.key
             e == ret'.entry
             old == c.lru[ElemOf(c, k)].entry
             mid == Insert(c, k, e)
             g == GetStep(c', now', k)
         IN /\ Len(mid.lru) = Len(c.lru)
            /\ mid.size = CacheSize - old.Size + e.Size
            /\ mid.lru[1].key = k
            /\ g.ok /\ g.entry = e]_vars

\* C29 (amended): a Set on a present key leaves Len() as it was, changes
\* Size() by e.Size minus the old Size and puts the key first in use order,
\* all before any eviction; a following Get returns e when e is unexpired and
\* e.Size <= max_size, and misses otherwise; it never returns the old entry.
C29_ReplaceFits ==
  [][(IsSet /\ ret'.key \in c.items) =>
         LET k == ret'.key
             e == ret'.entry
             old == c.lru[ElemOf(c, k)].entry
             mid == Insert(c, k, e)
             g == GetStep(c', now', k)
         IN /\ Len(mid.lru) = Len(c.lru)
            /\ mid.size = CacheSize - old.Size + e.Size
            /\ mid.lru[1] = [key |-> k, entry |-> e]
            /\ mid.items = c.items
            /\ g.ok <=> (e.Size <= c.maxSize /\ ~Expired(e, now))
            /\ g.ok => g.entry = e
            /\ e.Size <= c.maxSize => c'.lru[1] = [key |-> k, entry |-> e]]_vars

\* C29 witness: a Set replaced the entry of a key that was not the most
\* recently used, with an entry of another size, and evicted the other key.
C29_Witness ==
  /\ ret.op = "Set" /\ ret.had
  /\ ret.evicted # <<>>
  /\ c.lru = <<[key |-> ret.key, entry |-> ret.entry]>>
  /\ ret.entry.Size = c.maxSize
  /\ \A i \in 1..Len(ret.evicted) : ret.evicted[i] # ret.key

\* C30: the eviction loop of Set removes entries from the least recently used
\* end only, and stops as soon as Size() <= max_size or the store is empty: a
\* Set whose total fits evicts nothing, and a Set of an entry larger than
\* max_size leaves the store empty.
C30_Eviction ==
  [][IsSet =>
         LET e == ret'.entry
             ev == ret'.evicted
             mid == Insert(c, ret'.key, e)
             n == Len(mid.lru)
         IN /\ Len(ev) <= n
            /\ \A i \in 1..Len(ev) : ev[i] = mid.lru[n + 1 - i].key
            /\ c'.lru = SubSeq(mid.lru, 1, n - Len(ev))
            /\ CacheSize' <= c.maxSize \/ CacheLen' = 0
            /\ ev # <<>> =>
                 CacheSize' + mid.lru[n + 1 - Len(ev)].entry.Size > c.maxSize
            /\ mid.size <= c.maxSize => ev = <<>>
            /\ e.Size > c.maxSize =>
                 CacheLen' = 0 /\ CacheSize' = 0 /\ c'.items = {}]_vars

\* C30 witness: a Set of an entry larger than max_size emptied a store that
\* held two entries.
C30_Witness ==
  /\ ret.op = "Set"
  /\ ret.entry.Size > c.maxSize
  /\ Len(ret.evicted) = 3
  /\ CacheLen = 0 /\ CacheSize = 0

\* C19 (as claimed): a write by the caller to the Entry returned by Get, or to
\* the Entry it passed to Set, changes neither what Get returns for any key
\* nor Size().
C19_NoAlias ==
  [][\A e2 \in Entries :
       (MutateReturned(e2) \/ \E k \in Keys : MutatePassed(k, e2)) =>
         /\ \A k2 \in Keys :
              /\ GetStep(c', now, k2).ok = GetStep(c, now, k2).ok
              /\ GetStep(c', now, k2).entry = GetStep(c, now, k2).entry
         /\ CacheSize' = CacheSize]_vars

\* the step is a call of Get, of the key its result records
IsGet == ret'.op = "Get" /\ Get(ret'.key)

\* C31: expiry is lazy.  The passage of time changes nothing in the store, so
\* an expired entry keeps counting in Size() and Len(); an entry leaves the
\* store only by a Get on its own key that finds it expired, a Delete of its
\* key, a Clear, a Set of its key (replaced) or an eviction by a Set.  A Get
\* on an expired key misses and removes exactly that entry: Len decreases by
\* 1, Size by its Size, and the other entries keep their order.
C31_LazyExpiry ==
  [][/\ now' # now => c' = c
     /\ \A i \in 1..Len(c.lru) :
          (\A j \in 1..Len(c'.lru) : c'.lru[j] # c.lru[i]) =>
            \/ ret'.op = "Get" /\ ret'.key = c.lru[i].key /\ Expired(c.lru[i].entry, now)
            \/ ret'.op = "Delete" /\ ret'.key = c.lru[i].key
            \/ ret'.op = "Clear"
            \/ ret'.op = "Set" /\ ret'.key = c.lru[i].key
            \/ ret'.op = "Set" /\ \E n \in 1..Len(ret'.evicted) : ret'.evicted[n] = c.lru[i].key
     /\ (IsGet /\ ret'.key \in c.items /\ Expired(c.lru[ElemOf(c, ret'.key)].entry, now)) =>
          LET i == ElemOf(c, ret'.key)
          IN /\ ~ret'.ok
             /\ Len(c'.lru) = CacheLen - 1
             /\ c'.size = CacheSize - c.lru[i].entry.Size
             /\ c'.lru = RemoveAt(c.lru, i)
             /\ c'.items = c.items \ {ret'.key}]_vars

\* a Get has just missed on a key that was present and expired; another
\* entry, expired as well, is still stored and still counted
C31_Witness ==
  /\ ret.op = "Get" /\ ret.had /\ ~ret.ok
  /\ ret.key \notin c.items
  /\ CacheLen = 1
  /\ CacheSize = c.lru[1].entry.Size
  /\ Expired(c.lru[1].entry, now)

(* ------------------------------ limiter ------------------------------- *)

\* Tokens are counted in units of 1/TokenUnit token, and the limiter clock in
\* ticks of 1/(rate * TokenUnit) second: one tick accrues one unit at any rate,
\* so tokens + elapsed * rate is exact (the float64 rounding of that sum is
\* the subject of SpecFloat).
TokenUnit == 2

\* Largest burst a limiter is constructed with.
MaxBurst == 2

\* 5*time.Minute, the idle threshold of cleanup, in ticks (scaled down).
IdleThreshold == 2

\* Last instant of the limiter clock.
MaxTime == 3

\* requestsPerSecond values a limiter is constructed with.
Rates == {1000}

LKeys == {"a", "b"}

Threads == {"g1", "g2"}

\* Bucket objects of one key that can be live at once: the call that creates
\* one holds none, and every other call holds at most one reclaimed bucket.
MaxBuckets == Cardinality(Threads)

\* bucket addresses: every key allocates from a range of its own
Addrs == LKeys \X (1..MaxBuckets)

Nil == <<"", 0>>

NoBucket == [tokens |-> 0 - 1, lastRefill |-> 0 - 1]

IdleThread == [pc |-> "idle", key |-> "", b |-> Nil]

\* min (ratelimit_test.go: func min)
min(x, y) == IF x < y THEN x ELSE y

\* NewTokenBucket: rate, burst and an empty map
NewTokenBucket(r, bu) == [rate |-> r, burst |-> bu, buckets |-> [k \in LKeys |-> Nil]]

\* tb.buckets[key] (Nil: no bucket)
LookupAny(k) ==
  IF \E j \in LKeys : tb.buckets[j] # Nil
    THEN tb.buckets[CHOOSE j \in LKeys : tb.buckets[j] # Nil]
    ELSE Nil

Lookup(k) == tb.buckets[k]

\* &bucket{tokens: float64(tb.burst), lastRefill: time.Now()}
NewBucket == [tokens |-> tb.burst * TokenUnit, lastRefill |-> now]

\* the address a new bucket object gets
HasFree(k) == \E i \in 1..MaxBuckets : heap[<<k, i>>] = NoBucket

FreeAddr(k) ==
  <<k, CHOOSE i \in 1..MaxBuckets :
         heap[<<k, i>>] = NoBucket /\ \A j \in 1..(i - 1) : heap[<<k, j>>] # NoBucket>>

\* objects no longer reachable from the map or from a call in progress are gone
Reachable(bk, t) == {bk[k] : k \in LKeys} \cup {t[g].b : g \in Threads}

Collect(h, bk, t) == [a \in Addrs |-> IF a \in Reachable(bk, t) THEN h[a] ELSE NoBucket]

\* the refill of Allow: min(burst, tokens + elapsed*rate)
RefillNoCap(bk, t) == bk.tokens + (t - bk.lastRefill)

Refill(bk, t) == min(tb.burst * TokenUnit, bk.tokens + (t - bk.lastRefill))

\* the admission test of Allow: b.tokens >= 1
HasTokenOffByOne(n) == n > TokenUnit

HasToken(n) == n >= TokenUnit

\* Wait's result in milliseconds: time.Duration(tokensNeeded/tb.rate*1000) * time.Millisecond
WaitTime(n) ==
  IF HasToken(n) THEN 0 ELSE ((TokenUnit - n) * 1000) \div (TokenUnit * tb.rate)

\* what Allow returns, from the bucket it holds and the instant it reads
AllowRet(bk, t) == HasToken(Refill(bk, t))

\* what Wait returns (milliseconds), from the bucket it found (Nil: none)
WaitRet(a) == IF a = Nil THEN 0 ELSE WaitTime(heap[a].tokens)

\* history, per bucket: the Allow calls made on it since its creation while no
\* time has passed (None once time has passed)
None == 0 - 1

Bump(n) == IF n = None THEN n ELSE min(n + 1, tb.burst + 1)

\* history, per key: whether an Allow was denied since the last admission
\* (None: no; 0: yes, at this instant; 1: yes, at an earlier one)
Denied(d, ok) == IF ok THEN None ELSE (IF d = None THEN 0 ELSE d)

Later(d) == IF d = None THEN d ELSE 1

\* history, per key: the Allow calls admitted since instant 0, counted up to
\* one more than any run can be granted (None: not counted)
MaxAdmitted == MaxBurst + MaxTime + 1

Count(n, ok) == IF n = None \/ ~ok THEN n ELSE min(n + 1, MaxAdmitted)

\* Allow up to the release of tb.mu (ratelimit_test.go:235-244)
AllowLookup(g, k) ==
  /\ th[g].pc = "idle"
  /\ IF Lookup(k) # Nil
       THEN /\ th' = [th EXCEPT ![g] = [pc |-> "allow", key |-> k, b |-> Lookup(k)]]
            /\ UNCHANGED <<tb, heap, hist>>
       ELSE /\ HasFree(k)
            /\ heap' = [heap EXCEPT ![FreeAddr(k)] = NewBucket]
            /\ tb' = [tb EXCEPT !.buckets[k] = FreeAddr(k)]
            /\ th' = [th EXCEPT ![g] = [pc |-> "allow", key |-> k, b |-> FreeAddr(k)]]
            /\ hist' = [hist EXCEPT !.streak[FreeAddr(k)] = 0]
  /\ UNCHANGED <<now, cacheVars, fb, px, pf>>

\* an Allow that advanced lastRefill only when it admitted the call
AllowRefillStaleClock(g) ==
  /\ th[g].pc = "allow"
  /\ LET a == th[g].b
         k == th[g].key
         n == Refill(heap[a], now)
         ok == AllowRet(heap[a], now)
         t2 == [th EXCEPT ![g] = IdleThread]
     IN /\ heap' = Collect([heap EXCEPT ![a] = [tokens |-> IF ok THEN n - TokenUnit ELSE n,
                                                lastRefill |-> IF ok THEN now
                                                               ELSE heap[a].lastRefill]],
                           tb.buckets, t2)
        /\ th' = t2
        /\ hist' = [hist EXCEPT !.streak[a] = Bump(@),
                                !.since[k] = Denied(@, ok),
                                !.admitted[k] = Count(@, ok)]
  /\ UNCHANGED <<tb, now, cacheVars, fb, px, pf>>

\* Allow under b.mu (ratelimit_test.go:246-261)
AllowRefill(g) ==
  /\ th[g].pc = "allow"
  /\ LET a == th[g].b
         k == th[g].key
         n == Refill(heap[a], now)
         ok == AllowRet(heap[a], now)
         t2 == [th EXCEPT ![g] = IdleThread]
     IN /\ heap' = Collect([heap EXCEPT ![a] = [tokens |-> IF ok THEN n - TokenUnit ELSE n,
                                                lastRefill |-> now]],
                           tb.buckets, t2)
        /\ th' = t2
        /\ hist' = [hist EXCEPT !.streak[a] = Bump(@),
                                !.since[k] = Denied(@, ok),
                                !.admitted[k] = Count(@, ok)]
  /\ UNCHANGED <<tb, now, cacheVars, fb, px, pf>>

\* Wait up to the release of tb.mu (ratelimit_test.go:266-272)
WaitLookup(g, k) ==
  /\ th[g].pc = "idle"
  /\ IF Lookup(k) = Nil
       THEN UNCHANGED th
       ELSE th' = [th EXCEPT ![g] = [pc |-> "wait", key |-> k, b |-> Lookup(k)]]
  /\ UNCHANGED <<tb, heap, hist, now, cacheVars, fb, px, pf>>

\* a Wait that refilled the bucket it reads, as Allow does
WaitReadRefills(g) ==
  /\ th[g].pc = "wait"
  /\ LET a == th[g].b
         t2 == [th EXCEPT ![g] = IdleThread]
     IN /\ th' = t2
        /\ heap' = Collect([heap EXCEPT ![a] = [tokens |-> Refill(heap[a], now),
                                                lastRefill |-> now]],
                           tb.buckets, t2)
  /\ UNCHANGED <<tb, hist, now, cacheVars, fb, px, pf>>

\* Wait under b.mu (ratelimit_test.go:274-283)
WaitRead(g) ==
  /\ th[g].pc = "wait"
  /\ LET t2 == [th EXCEPT ![g] = IdleThread]
     IN /\ th' = t2
        /\ heap' = Collect(heap, tb.buckets, t2)
  /\ UNCHANGED <<tb, hist, now, cacheVars, fb, px, pf>>

\* a staleness test that already holds at the threshold
StaleAtThreshold(bk, t) == t - bk.lastRefill >= IdleThreshold

\* one pass of cleanup (ratelimit_test.go:291-300), under tb.mu and each b.mu in turn
Stale(bk, t) == t - bk.lastRefill > IdleThreshold

Cleanup ==
  /\ \E k \in LKeys : tb.buckets[k] # Nil /\ Stale(heap[tb.buckets[k]], now)
  /\ LET bk == [k \in LKeys |->
                  IF tb.buckets[k] # Nil /\ Stale(heap[tb.buckets[k]], now)
                    THEN Nil ELSE tb.buckets[k]]
     IN /\ tb' = [tb EXCEPT !.buckets = bk]
        /\ heap' = Collect(heap, bk, th)
  /\ UNCHANGED <<th, hist, now, cacheVars, fb, px, pf>>

\* the cleanup goroutine, its ticker and its done channel
\* (ratelimit_test.go:287-311): tick = a tick waits in cleanupTicker.C,
\* done = the channel is closed
Sweeper == "cleanup"

NewTokenBucketRunning(r, bu) ==
  [rate |-> r, burst |-> bu, buckets |-> [k \in LKeys |-> Nil],
   tick |-> FALSE, done |-> FALSE]

\* the ticker delivers a tick (until cleanupTicker.Stop())
TickerFire ==
  /\ th[Sweeper].pc = "select"
  /\ ~tb.tick
  /\ tb' = [tb EXCEPT !.tick = TRUE]
  /\ UNCHANGED <<heap, th, hist, now, cacheVars, fb, px, pf>>

\* select takes the ticker's case: one pass (ratelimit_test.go:290-301)
SweepPass ==
  /\ th[Sweeper].pc = "select"
  /\ tb.tick
  /\ LET bk == [k \in LKeys |->
                  IF tb.buckets[k] # Nil /\ Stale(heap[tb.buckets[k]], now)
                    THEN Nil ELSE tb.buckets[k]]
     IN /\ tb' = [tb EXCEPT !.buckets = bk, !.tick = FALSE]
        /\ heap' = Collect(heap, bk, th)
  /\ UNCHANGED <<th, hist, now, cacheVars, fb, px, pf>>

\* select takes the done case (ratelimit_test.go:302-304)
SweepExit ==
  /\ th[Sweeper].pc = "select"
  /\ tb.done
  /\ th' = [th EXCEPT ![Sweeper].pc = "exited"]
  /\ UNCHANGED <<tb, heap, hist, now, cacheVars, fb, px, pf>>

\* Stop (ratelimit_test.go:309-311)
Stop ==
  /\ ~tb.done
  /\ tb' = [tb EXCEPT !.done = TRUE]
  /\ UNCHANGED <<heap, th, hist, now, cacheVars, fb, px, pf>>

\* the clock advances by one tick
LimiterTick ==
  /\ now < MaxTime
  /\ now' = now + 1
  /\ hist' = [hist EXCEPT !.streak = [a \in Addrs |-> None],
                          !.since = [k \in LKeys |-> Later(hist.since[k])]]
  /\ UNCHANGED <<tb, heap, th, cacheVars, fb, px, pf>>

LimiterIdle ==
  /\ tb = [rate |-> 0, burst |-> 0, buckets |-> <<>>]
  /\ heap = <<>>
  /\ th = <<>>
  /\ hist = <<>>

CacheIdle ==
  /\ c = NewMemoryCache(0)
  /\ ret = NoRet
  /\ recency = <<>>

(* ------------------------ the limiter's locks ------------------------- *)
(* Allow, Wait and cleanup with tb.mu (a sync.RWMutex) and every b.mu (a    *)
(* sync.Mutex) as state: a call is split at every Lock, RLock and Unlock.   *)
(* tb.mu = [w, r]: the goroutine holding it for writing ("" for none) and   *)
(* the goroutines holding it for reading; a bucket's mu is its holder.      *)

Free == ""

\* the keys the calls of the lock-level runs are made with
LockKeys == {"a"}

Goroutines == Threads \cup {Sweeper}

\* NewTokenBucket with its locks and the ticker's channel
NewTokenBucketLocked(r, bu) ==
  [rate |-> r, burst |-> bu, buckets |-> [k \in LKeys |-> Nil],
   mu |-> [w |-> Free, r |-> {}], tick |-> FALSE]

\* tb.mu.Lock() can return
CanLock == tb.mu.w = Free /\ tb.mu.r = {}

\* a Lock() on tb.mu has been called and has not returned
LockPending == \E g \in Goroutines : th[g].pc \in {"allow.Lock", "sweep.Lock"}

\* tb.mu.RLock() can return: a sync.RWMutex holds new readers back while a
\* writer holds it or waits for it
CanRLock == tb.mu.w = Free /\ ~LockPending

\* tb.mu.Unlock(): the readers that were held back are let in, ahead of the
\* next writer
Unlock(mu, t) == [w |-> Free, r |-> {g \in DOMAIN t : t[g].pc = "wait.RLock"}]

\* the goroutines after a tb.mu.Unlock(): the readers let in are past RLock()
Admit(t) ==
  [g \in DOMAIN t |-> IF t[g].pc = "wait.RLock" THEN [t[g] EXCEPT !.pc = "wait.map"] ELSE t[g]]

\* b.mu.Lock() can return, for the bucket at address a
CanLockBucket(a) == heap[a].mu = Free

\* bucket objects no goroutine and no map entry refers to are gone
CollectLocked(h, bk, t) ==
  [a \in Addrs |->
     IF a \in {bk[k] : k \in LKeys} \cup {t[g].b : g \in Goroutines} THEN h[a] ELSE NoBucket]

\* a goroutine calls Allow(k) (ratelimit_test.go:234)
AllowCall(g, k) ==
  /\ th[g].pc = "idle"
  /\ th' = [th EXCEPT ![g] = [pc |-> "allow.Lock", key |-> k, b |-> Nil]]
  /\ UNCHANGED <<tb, heap, hist, now, cacheVars, fb, px, pf>>

\* tb.mu.Lock() (ratelimit_test.go:235)
AllowLock(g) ==
  /\ th[g].pc = "allow.Lock"
  /\ CanLock
  /\ tb' = [tb EXCEPT !.mu.w = g]
  /\ th' = [th EXCEPT ![g].pc = "allow.map"]
  /\ UNCHANGED <<heap, hist, now, cacheVars, fb, px, pf>>

\* the lookup or creation and tb.mu.Unlock() (ratelimit_test.go:236-244)
AllowUnlock(g) ==
  /\ th[g].pc = "allow.map"
  /\ LET k == th[g].key
     IN IF Lookup(k) # Nil
          THEN /\ th' = Admit([th EXCEPT ![g].pc = "allow.bLock", ![g].b = Lookup(k)])
               /\ tb' = [tb EXCEPT !.mu = Unlock(@, th)]
               /\ UNCHANGED heap
          ELSE /\ HasFree(k)
               /\ heap' = [heap EXCEPT ![FreeAddr(k)] =
                             [tokens |-> NewBucket.tokens, lastRefill |-> now, mu |-> Free]]
               /\ tb' = [tb EXCEPT !.buckets[k] = FreeAddr(k), !.mu = Unlock(@, th)]
               /\ th' = Admit([th EXCEPT ![g].pc = "allow.bLock", ![g].b = FreeAddr(k)])
  /\ UNCHANGED <<hist, now, cacheVars, fb, px, pf>>

\* b.mu.Lock() (ratelimit_test.go:246)
AllowLockBucket(g) ==
  /\ th[g].pc = "allow.bLock"
  /\ CanLockBucket(th[g].b)
  /\ heap' = [heap EXCEPT ![th[g].b].mu = g]
  /\ th' = [th EXCEPT ![g].pc = "allow.bucket"]
  /\ UNCHANGED <<tb, hist, now, cacheVars, fb, px, pf>>

\* an Allow that returns without unlocking b.mu
AllowReturnLocked(g) ==
  /\ th[g].pc = "allow.bucket"
  /\ LET a == th[g].b
         n == Refill(heap[a], now)
         ok == AllowRet(heap[a], now)
     IN heap' = [heap EXCEPT ![a] = [tokens |-> IF ok THEN n - TokenUnit ELSE n,
                                     lastRefill |-> now, mu |-> g]]
  /\ th' = [th EXCEPT ![g].pc = "idle"]
  /\ UNCHANGED <<tb, hist, now, cacheVars, fb, px, pf>>

\* the refill, the admission and the deferred b.mu.Unlock()
\* (ratelimit_test.go:247-261)
AllowReturn(g) ==
  /\ th[g].pc = "allow.bucket"
  /\ LET a == th[g].b
         n == Refill(heap[a], now)
         ok == AllowRet(heap[a], now)
         t2 == [th EXCEPT ![g] = IdleThread]
     IN /\ heap' = CollectLocked([heap EXCEPT ![a] =
                                    [tokens |-> IF ok THEN n - TokenUnit ELSE n,
                                     lastRefill |-> now, mu |-> Free]],
                                 tb.buckets, t2)
        /\ th' = t2
  /\ UNCHANGED <<tb, hist, now, cacheVars, fb, px, pf>>

\* a goroutine calls Wait(k) (ratelimit_test.go:265)
WaitCall(g, k) ==
  /\ th[g].pc = "idle"
  /\ th' = [th EXCEPT ![g] = [pc |-> "wait.RLock", key |-> k, b |-> Nil]]
  /\ UNCHANGED <<tb, heap, hist, now, cacheVars, fb, px, pf>>

\* tb.mu.RLock() (ratelimit_test.go:266)
WaitRLock(g) ==
  /\ th[g].pc = "wait.RLock"
  /\ CanRLock
  /\ tb' = [tb EXCEPT !.mu.r = @ \cup {g}]
  /\ th' = [th EXCEPT ![g].pc = "wait.map"]
  /\ UNCHANGED <<heap, hist, now, cacheVars, fb, px, pf>>

\* the lookup, tb.mu.RUnlock() and the return when there is no bucket
\* (ratelimit_test.go:267-272)
WaitRUnlock(g) ==
  /\ th[g].pc = "wait.map"
  /\ tb' = [tb EXCEPT !.mu.r = @ \ {g}]
  /\ th' = [th EXCEPT ![g] = IF Lookup(th[g].key) = Nil THEN IdleThread
                             ELSE [@ EXCEPT !.pc = "wait.bLock", !.b = Lookup(th[g].key)]]
  /\ UNCHANGED <<heap, hist, now, cacheVars, fb, px, pf>>

\* b.mu.Lock() (ratelimit_test.go:274)
WaitLockBucket(g) ==
  /\ th[g].pc = "wait.bLock"
  /\ CanLockBucket(th[g].b)
  /\ heap' = [heap EXCEPT ![th[g].b].mu = g]
  /\ th' = [th EXCEPT ![g].pc = "wait.bucket"]
  /\ UNCHANGED <<tb, hist, now, cacheVars, fb, px, pf>>

\* the read of b.tokens and the deferred b.mu.Unlock() (ratelimit_test.go:275-283)
WaitReturn(g) ==
  /\ th[g].pc = "wait.bucket"
  /\ LET t2 == [th EXCEPT ![g] = IdleThread]
     IN /\ heap' = CollectLocked([heap EXCEPT ![th[g].b].mu = Free], tb.buckets, t2)
        /\ th' = t2
  /\ UNCHANGED <<tb, hist, now, cacheVars, fb, px, pf>>

\* the ticker delivers a tick
LockedTickerFire ==
  /\ ~tb.tick
  /\ tb' = [tb EXCEPT !.tick = TRUE]
  /\ UNCHANGED <<heap, th, hist, now, cacheVars, fb, px, pf>>

\* select receives the tick: a pass begins (ratelimit_test.go:289-290)
SweepReceive ==
  /\ th[Sweeper].pc = "select"
  /\ tb.tick
  /\ tb' = [tb EXCEPT !.tick = FALSE]
  /\ th' = [th EXCEPT ![Sweeper].pc = "sweep.Lock"]
  /\ UNCHANGED <<heap, hist, now, cacheVars, fb, px, pf>>

\* the range's move to its next bucket, in any order the runtime picks:
\* b is the bucket whose b.mu.Lock() comes next, key the keys still to visit
RangeNext(t, bk, rest) ==
  IF rest = {}
    THEN {[t EXCEPT ![Sweeper] = [pc |-> "sweep.Unlock", key |-> {}, b |-> Nil]]}
    ELSE {[t EXCEPT ![Sweeper] = [pc |-> "sweep.bLock", key |-> rest \ {k}, b |-> bk[k]]] :
            k \in rest}

\* tb.mu.Lock() and the start of the range over the map (ratelimit_test.go:291-293)
SweepLock ==
  /\ th[Sweeper].pc = "sweep.Lock"
  /\ CanLock
  /\ tb' = [tb EXCEPT !.mu.w = Sweeper]
  /\ th' \in RangeNext(th, tb.buckets, {k \in LKeys : tb.buckets[k] # Nil})
  /\ UNCHANGED <<heap, hist, now, cacheVars, fb, px, pf>>

\* b.mu.Lock() on the range's bucket (ratelimit_test.go:294)
SweepLockBucket ==
  /\ th[Sweeper].pc = "sweep.bLock"
  /\ CanLockBucket(th[Sweeper].b)
  /\ heap' = [heap EXCEPT ![th[Sweeper].b].mu = Sweeper]
  /\ th' = [th EXCEPT ![Sweeper].pc = "sweep.bucket"]
  /\ UNCHANGED <<tb, hist, now, cacheVars, fb, px, pf>>

\* the staleness test, the delete and b.mu.Unlock() (ratelimit_test.go:295-298)
SweepUnlockBucket ==
  /\ th[Sweeper].pc = "sweep.bucket"
  /\ LET a == th[Sweeper].b
         bk == [k \in LKeys |-> IF tb.buckets[k] = a /\ Stale(heap[a], now)
                                  THEN Nil ELSE tb.buckets[k]]
     IN /\ tb' = [tb EXCEPT !.buckets = bk]
        /\ th' \in RangeNext(th, bk, th[Sweeper].key)
        /\ heap' = CollectLocked([heap EXCEPT ![a].mu = Free], bk, th')
  /\ UNCHANGED <<hist, now, cacheVars, fb, px, pf>>

\* the end of the range and tb.mu.Unlock() (ratelimit_test.go:299-300)
SweepUnlock ==
  /\ th[Sweeper].pc = "sweep.Unlock"
  /\ tb' = [tb EXCEPT !.mu = Unlock(@, th)]
  /\ th' = Admit([th EXCEPT ![Sweeper].pc = "select"])
  /\ UNCHANGED <<heap, hist, now, cacheVars, fb, px, pf>>

LockedTick ==
  /\ now < MaxTime
  /\ now' = now + 1
  /\ UNCHANGED <<tb, heap, th, hist, cacheVars, fb, px, pf>>

(* -------------------------- limiter properties ------------------------ *)

\* the bucket the map holds for key k
BucketOf(k) == heap[tb.buckets[k]]

\* C6: every bucket, in the map or still held by a call, has
\* 0 <= tokens <= burst in every reachable state.
C6_TokenRange ==
  \A a \in Addrs : heap[a] # NoBucket =>
    (0 <= heap[a].tokens /\ heap[a].tokens <= tb.burst * TokenUnit)

\* C6 witness: a bucket was drained to 0 and an Allow on it was denied, while
\* another key's bucket is at burst.
C6_Witness ==
  \E k1 \in LKeys, k2 \in LKeys :
    /\ tb.buckets[k1] # Nil /\ tb.buckets[k2] # Nil
    /\ hist.since[k1] >= 0
    /\ BucketOf(k1).tokens = 0
    /\ BucketOf(k2).tokens = tb.burst * TokenUnit

\* C7: on a bucket just created for a key that had none, with no time passing,
\* the first burst Allow calls return true and every later one returns false.
C7_Burst ==
  [][\A g \in Threads :
       (AllowRefill(g) /\ hist.streak[th[g].b] # None) =>
         (AllowRet(heap[th[g].b], now) <=> hist.streak[th[g].b] < tb.burst)]_vars

\* C7 witness: burst + 1 Allow calls have been made on a bucket at the instant
\* of its creation and it is drained.
C7_Witness ==
  \E k \in LKeys :
    /\ tb.buckets[k] # Nil
    /\ hist.streak[tb.buckets[k]] = tb.burst + 1
    /\ BucketOf(k).tokens = 0
    /\ hist.since[k] = 0

\* the buckets and the map entries of every key but k are left as they are
OthersUntouched(k) ==
  /\ \A k2 \in LKeys \ {k} : tb'.buckets[k2] = tb.buckets[k2]
  /\ \A a \in Addrs : a[1] # k => heap'[a] = heap[a]

\* C9: a step of Allow or Wait on one key changes neither the map entry nor the
\* tokens or last_refill of any bucket of another key.
C9_KeyIndependence ==
  [][/\ \A g \in Threads, k \in LKeys :
          (AllowLookup(g, k) \/ WaitLookup(g, k)) => OthersUntouched(k)
     /\ \A g \in Threads :
          (AllowRefill(g) \/ WaitRead(g)) => OthersUntouched(th[g].key)]_vars

\* C9 witness: one key is exhausted and was denied while the other key's
\* bucket, created at the same instant, has spent nothing.
C9_Witness ==
  \E k1 \in LKeys, k2 \in LKeys :
    /\ k1 # k2
    /\ tb.buckets[k1] # Nil /\ tb.buckets[k2] # Nil
    /\ hist.since[k1] = 0
    /\ BucketOf(k1).tokens < TokenUnit
    /\ hist.streak[tb.buckets[k2]] = 0
    /\ BucketOf(k2).tokens = tb.burst * TokenUnit

\* what an Allow(k) run at instant t would return, given the map bks and the
\* bucket objects h: a key without bucket gets a full one
AllowNext(bks, h, k, t) ==
  IF bks[k] = Nil THEN HasToken(tb.burst * TokenUnit) ELSE AllowRet(h[bks[k]], t)

\* C11: a step of Wait creates no bucket, leaves the map and the tokens and
\* last_refill of every bucket as they are (a bucket no longer referenced is
\* freed), and leaves the result of an Allow at any later instant unchanged.
C11_WaitReadOnly ==
  [][\A g \in Threads :
       ((\E k \in LKeys : WaitLookup(g, k)) \/ WaitRead(g)) =>
         /\ tb' = tb
         /\ \A a \in Addrs :
              \/ heap'[a] = heap[a]
              \/ heap'[a] = NoBucket /\ a \notin Reachable(tb'.buckets, th')
         /\ \A k \in LKeys, t \in now..MaxTime :
              AllowNext(tb'.buckets, heap', k, t) = AllowNext(tb.buckets, heap, k, t)]_vars

\* C11 witness: a Wait is reading the bucket of a key that was denied and
\* holds less than a token, and another key has no bucket.
C11_Witness ==
  \E g \in Threads, k2 \in LKeys :
    /\ th[g].pc = "wait"
    /\ th[g].b = tb.buckets[th[g].key]
    /\ heap[th[g].b].tokens < TokenUnit
    /\ hist.since[th[g].key] # None
    /\ tb.buckets[k2] = Nil

\* C20 (as claimed): whenever the refill of an Allow(key) runs, the bucket it
\* refills and debits is the one the map holds for that key: the sweep has not
\* removed it since the call looked it up.
C20_NoSweepRace ==
  [][\A g \in Threads :
       AllowRefill(g) => th[g].b = tb.buckets[th[g].key]]_vars

\* C22 (as claimed): once Stop has returned, no pass of the sweep removes a
\* bucket.
C22_StopEndsSweep ==
  [][(tb.done /\ SweepPass) => tb'.buckets = tb.buckets]_vars

\* the bucket objects that exist for key k
BucketsFor(k) == {i \in 1..MaxBuckets : heap[<<k, i>>] # NoBucket}

\* C21 (as claimed): the Allow calls on one key take effect in one order, as
\* if run one after the other on one bucket: a key never has two buckets, and
\* once an Allow on the key was denied, no Allow on it is admitted at the same
\* instant.
C21_TotalOrder ==
  [][/\ \A k \in LKeys : Cardinality(BucketsFor(k)) <= 1
     /\ \A g \in Threads :
          (AllowRefill(g) /\ hist.since[th[g].key] = 0) =>
            ~AllowRet(heap[th[g].b], now)]_vars

\* C10 (as claimed): Wait returns 0 when the key has no bucket or tokens >= 1,
\* and otherwise a strictly positive duration equal to (1 - tokens)/rate, at
\* most 1/rate seconds (durations in milliseconds).
C10_WaitValue ==
  [][/\ \A g \in Threads, k \in LKeys :
          (WaitLookup(g, k) /\ Lookup(k) = Nil) => WaitRet(Nil) = 0
     /\ \A g \in Threads :
          WaitRead(g) =>
            LET n == heap[th[g].b].tokens
                w == WaitRet(th[g].b)
            IN IF n >= TokenUnit
                 THEN w = 0
                 ELSE /\ w > 0
                      /\ w * TokenUnit * tb.rate = (TokenUnit - n) * 1000
                      /\ w * tb.rate <= 1000]_vars

\* C33: a sweep pass removes only buckets whose lastRefill is more than the
\* idle threshold old; and while Stop has not been called, a bucket of the
\* map that is idle for longer than the threshold is eventually removed by a
\* pass, unless an Allow refreshes it first.
C33_IdleReclaimed ==
  /\ [][\A k \in LKeys :
          (tb.buckets[k] # Nil /\ tb'.buckets[k] = Nil) =>
            /\ tb.tick /\ ~tb'.tick
            /\ now - heap[tb.buckets[k]].lastRefill > IdleThreshold]_vars
  /\ \A k \in LKeys :
       (tb.buckets[k] # Nil /\ now - heap[tb.buckets[k]].lastRefill > IdleThreshold)
         ~> \/ tb.buckets[k] = Nil
            \/ now - heap[tb.buckets[k]].lastRefill <= IdleThreshold
            \/ tb.done

\* a key whose Allow was denied at an earlier instant has no bucket any more:
\* a pass has removed it, and Stop has not been called
C33_Witness ==
  \E k \in LKeys :
    /\ tb.buckets[k] = Nil
    /\ hist.since[k] = 1
    /\ now > IdleThreshold
    /\ ~tb.done
    /\ ~tb.tick

\* C36: for every key, the Allow calls admitted inside a window of length T
\* are at most burst + rate*T, also when the sweep reclaims the key's bucket
\* and a later Allow recreates it; here for the windows that begin at
\* instant 0, in units of 1/TokenUnit token (rate*T is one unit a tick).
C36_RateBound ==
  \A k \in LKeys :
    hist.admitted[k] # None => hist.admitted[k] * TokenUnit <= tb.burst * TokenUnit + now

\* the goroutine is inside Allow or Wait, or the sweeper inside a pass
InCall(g) == th[g].pc \notin {"idle", "select"}

\* the goroutine is at a Lock or RLock that cannot return now
Blocked(g) ==
  \/ th[g].pc \in {"allow.Lock", "sweep.Lock"} /\ ~CanLock
  \/ th[g].pc = "wait.RLock" /\ ~CanRLock
  \/ th[g].pc \in {"allow.bLock", "wait.bLock", "sweep.bLock"} /\ ~CanLockBucket(th[g].b)

\* the goroutines that hold the lock the goroutine is waiting for
Holders(g) ==
  IF th[g].pc \in {"allow.Lock", "sweep.Lock"}
    THEN (IF tb.mu.w = Free THEN {} ELSE {tb.mu.w}) \cup tb.mu.r
    ELSE IF th[g].pc = "wait.RLock"
           THEN IF tb.mu.w = Free
                  THEN {h \in Goroutines : th[h].pc \in {"allow.Lock", "sweep.Lock"}}
                  ELSE {tb.mu.w}
           ELSE {heap[th[g].b].mu}

\* the locks the goroutine holds
HoldsMap(g) == tb.mu.w = g \/ g \in tb.mu.r

HoldsBucket(g) == \E a \in Addrs : heap[a] # NoBucket /\ heap[a].mu = g

\* C35: no interleaving of Allow calls, Wait calls and sweep passes deadlocks
\* on tb.mu and the buckets' b.mu: a goroutine waiting for a lock waits for
\* goroutines that are inside a call and either can run or wait for ones that
\* can; a goroutine outside a call holds no lock; every started Allow and
\* Wait returns, and every sweep pass ends with both locks released.
C35_NoDeadlock ==
  /\ [](\A g \in Goroutines :
          /\ Blocked(g) =>
               \A h \in Holders(g) :
                 /\ h \in Goroutines \ {g}
                 /\ InCall(h)
                 /\ Blocked(h) => \A h2 \in Holders(h) : InCall(h2) /\ ~Blocked(h2)
          /\ ~InCall(g) => ~HoldsMap(g) /\ ~HoldsBucket(g))
  /\ \A g \in Threads : (th[g].pc # "idle") ~> (th[g].pc = "idle")
  /\ (th[Sweeper].pc # "select")
       ~> (th[Sweeper].pc = "select" /\ ~HoldsMap(Sweeper) /\ ~HoldsBucket(Sweeper))

\* a pass holds tb.mu and waits for a bucket an Allow holds, while another
\* call waits for tb.mu
C35_Witness ==
  /\ DOMAIN th = Goroutines
  /\ th[Sweeper].pc = "sweep.bLock"
  /\ Blocked(Sweeper)
  /\ \E g \in Threads : th[g].pc = "allow.bucket" /\ heap[th[Sweeper].b].mu = g
  /\ \E g \in Threads : th[g].pc \in {"allow.Lock", "wait.RLock"} /\ Blocked(g)

\* C32: the part of Allow under b.mu first sets tokens to
\* min(burst, tokens + elapsed * rate) and lastRefill to now; it then returns
\* true, taking exactly one token, iff the refilled tokens are >= 1; on a
\* denial the refilled value (< 1) stays and lastRefill is advanced all the
\* same.
C32_AllowStep ==
  [][\A g \in Threads :
       (th[g].pc = "allow" /\ th'[g].pc = "idle") =>
         LET a == th[g].b
             sum == heap[a].tokens + (now - heap[a].lastRefill)
             cap == tb.burst * TokenUnit
             refilled == IF cap < sum THEN cap ELSE sum
             admitted == hist'.since[th[g].key] = None
         IN /\ admitted <=> refilled >= TokenUnit
            /\ heap'[a] # NoBucket =>
                 /\ heap'[a].lastRefill = now
                 /\ admitted => heap'[a].tokens = refilled - TokenUnit
                 /\ ~admitted => heap'[a].tokens = refilled /\ refilled < TokenUnit]_vars

\* an Allow has just been denied on a bucket that holds a fraction of a token
\* earned since an earlier call, and the bucket's lastRefill is the present
C32_Witness ==
  \E k \in LKeys :
    /\ tb.buckets[k] # Nil
    /\ hist.since[k] = 0
    /\ BucketOf(k).tokens > 0 /\ BucketOf(k).tokens < TokenUnit
    /\ BucketOf(k).lastRefill = now
    /\ now > 0

(* ------------------- the token bucket in float64 ---------------------- *)
(* bucket.tokens and tokenBucket.rate are float64.  Below, one goroutine   *)
(* calls Allow on one key, at instants TicksPerSecond to the second, and   *)
(* tokens carries the float64 the code computes.  A float64 that is a      *)
(* multiple of 2^-56 is written <<hi, lo>>, for (hi * Limb + lo) * 2^-56,  *)
(* 0 <= lo < Limb: every value met here is one (all are sums and small     *)
(* multiples of quotients j/TicksPerSecond >= 1/16), and below 8.          *)
(* The run is far shorter than cleanup's ticker period.                    *)

\* Instants per second of the float64 limiter's clock (at most 16).
TicksPerSecond == 10

\* Last instant of the float64 limiter's clock.
MaxFloatTime == 11

\* requestsPerSecond values the float64 limiter is constructed with.
FloatRates == {1, 2}

Limb == 2^28

RECURSIVE Ulp(_)
\* the distance between neighbouring float64 values (53-bit significand) at
\* <<hi, lo>>, in units of 2^-56
Ulp(hi) == IF hi < 2^25 THEN 1 ELSE 2 * Ulp(hi \div 2)

\* the float64 nearest to (hi * Limb + lo + num/den) * 2^-56, ties to the even
\* significand: the rounding of every float64 operation
RoundToNearestEven(hi, lo, num, den) ==
  LET u == Ulp(hi)
      q == lo \div u
      twice == 2 * ((lo % u) * den + num)
      up == twice > u * den \/ (twice = u * den /\ q % 2 = 1)
      l == (IF up THEN q + 1 ELSE q) * u
  IN IF l = Limb THEN <<hi + 1, 0>> ELSE <<hi, l>>

\* float64(n)
Float(n) == <<n * Limb, 0>>

\* x + y in float64
FloatAdd(x, y) ==
  LET l == x[2] + y[2]
  IN RoundToNearestEven(x[1] + y[1] + l \div Limb, l % Limb, 0, 1)

\* x * float64(r) in float64
FloatMul(x, r) ==
  LET l == x[2] * r
  IN RoundToNearestEven(x[1] * r + l \div Limb, l % Limb, 0, 1)

\* half a limb of the long division of r by d, r < d: the quotient's next 14
\* binary digits and the remainder
DivHalf(r, d) == <<(r * 2^14) \div d, (r * 2^14) % d>>

\* <<(r * Limb) \div d, (r * Limb) % d>>, for r < d
DivLimb(r, d) ==
  LET a == DivHalf(r, d)
      b == DivHalf(a[2], d)
  IN <<a[1] * 2^14 + b[1], b[2]>>

\* float64(j) / float64(d) in float64, for 0 <= j < d
FloatDiv(j, d) ==
  LET h == DivLimb(j, d)
      l == DivLimb(h[2], d)
  IN RoundToNearestEven(h[1], l[1], l[2], d)

\* time.Duration.Seconds of k ticks: float64(sec) + float64(nsec)/1e9
Seconds(k) ==
  FloatAdd(Float(k \div TicksPerSecond), FloatDiv(k % TicksPerSecond, TicksPerSecond))

FloatLess(x, y) == x[1] < y[1] \/ (x[1] = y[1] /\ x[2] < y[2])

FloatMin(x, y) == IF FloatLess(x, y) THEN x ELSE y

NoFloatBucket == [tokens |-> <<0, 0>>, lastRefill |-> 0 - 1]

\* the bucket Allow works on: the key's, or the one it creates
FloatBucket ==
  IF fb.bucket = NoFloatBucket
    THEN [tokens |-> Float(fb.burst), lastRefill |-> now]
    ELSE fb.bucket

\* min(float64(tb.burst), b.tokens+elapsed*tb.rate)
FloatRefill(bk, t) ==
  FloatMin(Float(fb.burst),
           FloatAdd(bk.tokens, FloatMul(Seconds(t - bk.lastRefill), fb.rate)))

\* b.tokens >= 1
FloatHasToken(x) == ~FloatLess(x, Float(1))

\* what Allow returns
AllowFloatRet == FloatHasToken(FloatRefill(FloatBucket, now))

\* history: the ticks since the earliest denial after the last admission,
\* counted up to a second (None: no denial since)
DeniedSince(d, ok) == IF ok THEN None ELSE (IF d = None THEN 0 ELSE d)

\* Allow(key), whole, by the one goroutine (ratelimit_test.go:234-262)
AllowFloat ==
  /\ LET n == FloatRefill(FloatBucket, now)
         ok == FloatHasToken(n)
     IN fb' = [fb EXCEPT !.bucket = [tokens |-> IF ok THEN <<n[1] - Limb, n[2]>> ELSE n,
                                     lastRefill |-> now],
                         !.since = DeniedSince(@, ok)]
  /\ UNCHANGED <<now, cacheVars, tb, heap, th, hist, px, pf>>

\* the clock advances by one tick
FloatTick ==
  /\ now < MaxFloatTime
  /\ now' = now + 1
  /\ fb' = [fb EXCEPT !.since = IF @ = None THEN @ ELSE min(@ + 1, TicksPerSecond)]
  /\ UNCHANGED <<cacheVars, tb, heap, th, hist, px, pf>>

FloatIdle == fb = <<>>

PipelineIdle == px = <<>>

\* no policy function has been called
NoCall == [op |-> "none"]

PolicyIdle == pf = NoCall

\* C8 (as claimed): once Allow(key) was denied at t, with no admission of the
\* key since, an Allow(key) at t' with (t' - t) * rate >= 1 returns true,
\* whatever denied calls came in between.
C8_Refill ==
  [][(/\ AllowFloat
      /\ fb.since # None
      /\ fb.since * fb.rate >= TicksPerSecond) => AllowFloatRet]_vars

(* ------------------------------ pipeline ------------------------------ *)
(* createProxyHandler, the middleware and handleProxy                      *)
(* (examples/scripts/health_check.sh), serving one request at a time over  *)
(* the store and the limiter modelled above.                               *)

\* Capacity of the pipeline's store, in bytes.
PipeMaxSize == 2

\* Last instant of the pipeline's clock.
MaxPipeTime == 2

\* cfg.Cache.DefaultTTL, in ticks
DefaultTTL == 1

\* the limiter admits one request a second: a tick is 1/TokenUnit of a second
PipeRates == {1}

PipeBursts == {1}

PipeSecond == TokenUnit

Methods == {"GET", "HEAD", "POST"}

Clients == {"a"}

\* a body of n bytes
Bytes(n) == [i \in 1..n |-> "b"]

PipeBodies == {Bytes(1), Bytes(PipeMaxSize + 1)}

Statuses == {200, 404, 500}

\* Cache-Control values the upstream sends (none: the header is absent)
CacheControls == {<<>>, <<"no-store">>, <<"max-age=", "1">>}

\* what the upstream answers
Upstreams == [status : Statuses, cc : CacheControls, body : PipeBodies]

\* what an upstream that honours If-None-Match answers when the client's copy
\* is current: 304 Not Modified, without a body
NotModifiedUpstreams == [status : {304}, cc : CacheControls, body : {Bytes(0)}]

\* GenerateETag (cache.go:239-243): the quoted MD5 digest of the body, one
\* value per body
GenerateETag(b) ==
  IF b = Bytes(0) THEN "md5()" ELSE IF b = Bytes(1) THEN "md5(b)" ELSE "md5(b..b)"

Requests == [method : Methods, inm : {"", GenerateETag(Bytes(0)), GenerateETag(Bytes(1))},
             client : Clients]

\* http.Header: the values of every name, in order (none: the name is absent)
HNames == {"Cache-Control", "Content-Type", "ETag", "Expires", "Retry-After", "X-Cache",
           "X-Request-ID"}

NoHeaders == [n \in HNames |-> <<>>]

\* Header.Get: the first value of the name, the empty string when there is none
HeaderGet(H, n) == IF H[n] = <<>> THEN <<>> ELSE H[n][1]

HeaderSet(H, n, v) == [H EXCEPT ![n] = <<v>>]

HeaderAdd(H, n, v) == [H EXCEPT ![n] = Append(@, v)]

\* for key, values := range entry.Headers { ... w.Header().Add(key, value) }
AddAll(H, E) == [n \in HNames |-> H[n] \o E[n]]

\* Width of an MD5 digest (128 in the program).
DigestBits == 3

\* the byte value of a symbol
SymCode(x) ==
  CASE x = "GET" -> 1 [] x = "HEAD" -> 2 [] x = "POST" -> 3 [] x = "|" -> 4
    [] x = "/" -> 5 [] x = "a" -> 6 [] x = "b" -> 7 [] x = ":" -> 8
    [] x = "Accept" -> 9 [] x = "gzip" -> 10

\* md5.New(); h.Write(s); h.Sum(nil): a digest of DigestBits bits, every
\* symbol of s mixed into it in turn
RECURSIVE MD5Sum(_)
MD5Sum(s) ==
  IF s = <<>> THEN 0
  ELSE (5 * MD5Sum(SubSeq(s, 1, Len(s) - 1)) + SymCode(s[Len(s)])) % (2 ^ DigestBits)

HexDigits == <<"0", "1", "2", "3", "4", "5", "6", "7", "8", "9", "a", "b", "c", "d", "e", "f">>

\* hex.EncodeToString: two digits for every byte of the digest
EncodeToString(d) ==
  LET n == 2 * ((DigestBits + 7) \div 8)
  IN [i \in 1..n |-> HexDigits[((d \div (16 ^ (n - i))) % 16) + 1]]

\* strings.Join(parts, "|")
RECURSIVE Join(_)
Join(parts) ==
  IF parts = <<>> THEN <<>>
  ELSE IF Len(parts) = 1 THEN parts[1]
  ELSE parts[1] \o <<"|">> \o Join(Tail(parts))

\* the parts CacheKey appends for the listed headers (cache.go:166-170)
RECURSIVE VaryParts(_, _)
VaryParts(r, varyHeaders) ==
  IF varyHeaders = <<>> THEN <<>>
  ELSE LET header == Head(varyHeaders)
           val == IF r.Header[header] = <<>> THEN <<>> ELSE r.Header[header][1]
       IN (IF val # <<>> THEN <<<<header, ":">> \o val>> ELSE <<>>)
            \o VaryParts(r, Tail(varyHeaders))

\* parts with the query appended even when it is empty
KeyPartsWithEmptyQuery(r, varyHeaders) ==
  <<r.Method, r.Path, r.RawQuery>> \o VaryParts(r, varyHeaders)

\* the string CacheKey digests (cache.go:158-170, 174)
KeyParts(r, varyHeaders) ==
  <<r.Method, r.Path>>
    \o (IF r.RawQuery # <<>> THEN <<r.RawQuery>> ELSE <<>>)
    \o VaryParts(r, varyHeaders)

\* CacheKey (cache.go:156-176)
CacheKey(r, varyHeaders) == EncodeToString(MD5Sum(Join(KeyParts(r, varyHeaders))))

\* headers of a request that the key functions read
ReqHNames == {"Accept", "X-API-Key", "X-Forwarded-For", "X-Real-IP"}

NoReqHeaders == [n \in ReqHNames |-> <<>>]

\* the *http.Request of a request of the pipeline: every one is for the
\* path "/", without a query
HTTPRequest(r) ==
  [Method |-> <<r.method>>, Path |-> <<"/">>, RawQuery |-> <<>>, Header |-> NoReqHeaders,
   RemoteAddr |-> <<r.client>>]

(* The values of the headers the policy functions parse are strings, held  *)
(* as sequences of symbols: a symbol is a separator (comma, space), a word *)
(* of a directive, a numeral or an HTTP date.                              *)

\* strings.ToLower, symbol by symbol
Lower(x) ==
  CASE x = "NO-STORE" -> "no-store"
    [] x = "Private" -> "private"
    [] x = "MAX-AGE=" -> "max-age="
    [] OTHER -> x

ToLower(s) == [i \in 1..Len(s) |-> Lower(s[i])]

\* strings.TrimSpace
TrimSpace(s) ==
  LET ink == {i \in 1..Len(s) : s[i] # " "}
      lo == CHOOSE i \in ink : \A j \in ink : i <= j
      hi == CHOOSE i \in ink : \A j \in ink : i >= j
  IN IF ink = {} THEN <<>> ELSE SubSeq(s, lo, hi)

\* strings.Split(s, ","): the pieces between the commas, in order
RECURSIVE Split(_)
Split(s) ==
  LET commas == {i \in 1..Len(s) : s[i] = ","}
      i == CHOOSE x \in commas : \A y \in commas : x <= y
  IN IF commas = {} THEN <<s>>
     ELSE <<SubSeq(s, 1, i - 1)>> \o Split(SubSeq(s, i + 1, Len(s)))

\* Width of int and of time.Duration (64 in the program).
DurationBits == 5

MaxInt == 2 ^ (DurationBits - 1) - 1

\* two's-complement wrap of a product of that width
WrapInt(x) == ((x + MaxInt + 1) % (2 * (MaxInt + 1))) - (MaxInt + 1)

\* the number a numeral spells: the third is the smallest count of seconds
\* whose Duration overflows, the fourth does not fit an int
NumeralValue(x) ==
  CASE x = "0" -> 0
    [] x = "1" -> 1
    [] x = "-1" -> 0 - 1
    [] x = "9999999999" -> (MaxInt \div PipeSecond) + 1
    [] x = "99999999999999999999" -> MaxInt + 1

Numerals == {"0", "1", "-1", "9999999999", "99999999999999999999"}

\* strconv.Atoi: an optional sign and digits, in the range of int
Atoi(s) ==
  IF Len(s) = 1 /\ s[1] \in Numerals /\ NumeralValue(s[1]) <= MaxInt
  THEN [err |-> FALSE, n |-> NumeralValue(s[1])]
  ELSE [err |-> TRUE, n |-> 0]

\* http.ParseTime: "@n" stands for the HTTP date of instant n
DateValue(x) == CASE x = "@0" -> 0 [] x = "@1" -> 1 [] x = "@2" -> 2 [] x = "@3" -> 3

Dates == {"@0", "@1", "@2", "@3"}

ParseTime(s) ==
  IF Len(s) = 1 /\ s[1] \in Dates
  THEN [err |-> FALSE, t |-> DateValue(s[1])]
  ELSE [err |-> TRUE, t |-> 0]

\* an IsCacheable that does not look at the method
IsCacheableAnyMethod(method, statusCode, H) ==
  LET cacheControl == HeaderGet(H, "Cache-Control")
      directives == Split(cacheControl)
  IN /\ ~(statusCode >= 500 \/ (statusCode >= 400 /\ statusCode # 404))
     /\ cacheControl # <<>> =>
          \A i \in 1..Len(directives) :
            TrimSpace(ToLower(directives[i])) \notin
              {<<"no-store">>, <<"no-cache">>, <<"private">>}

\* IsCacheable (cache.go:179-203)
IsCacheable(method, statusCode, H) ==
  LET cacheControl == HeaderGet(H, "Cache-Control")
      directives == Split(cacheControl)
  IN /\ method \in {"GET", "HEAD"}
     /\ ~(statusCode >= 500 \/ (statusCode >= 400 /\ statusCode # 404))
     /\ cacheControl # <<>> =>
          \A i \in 1..Len(directives) :
            TrimSpace(ToLower(directives[i])) \notin
              {<<"no-store">>, <<"no-cache">>, <<"private">>}

\* the max-age loop of ParseTTL (cache.go:212-223): the directives that
\* start with max-age= and whose remainder Atoi accepts; the first '=' of
\* such a directive is the one of the prefix
MaxAgeHits(directives) ==
  {i \in 1..Len(directives) :
     LET directive == TrimSpace(directives[i])
     IN /\ directive # <<>>
        /\ Lower(directive[1]) = "max-age="
        /\ ~Atoi(Tail(directive)).err}

\* ParseTTL (cache.go:206-236) called at instant t, in ticks
ParseTTL(H, defaultTTL, t) ==
  LET cacheControl == HeaderGet(H, "Cache-Control")
      directives == Split(cacheControl)
      hits == MaxAgeHits(directives)
      first == CHOOSE i \in hits : \A j \in hits : i <= j
      expires == HeaderGet(H, "Expires")
      ttl == ParseTime(expires).t - t
  IN IF cacheControl = <<>> THEN defaultTTL
     ELSE IF hits # {}
       THEN WrapInt(Atoi(Tail(TrimSpace(directives[first]))).n * PipeSecond)
     ELSE IF expires # <<>> /\ ~ParseTime(expires).err /\ ttl > 0 THEN ttl
     ELSE defaultTTL

PipeNoEntry ==
  [StatusCode |-> 0, Headers |-> NoHeaders, Body |-> <<>>, ETag |-> "",
   ExpiresAt |-> 0, Size |-> 0]

\* the http.ResponseWriter of the request: the header map, and what has gone
\* to the client (the header block is a copy of the map taken when the status
\* line is written; later changes of the map do not reach the client)
NewWriter == [hdr |-> NoHeaders, sent |-> FALSE, status |-> 0, wire |-> NoHeaders, body |-> <<>>]

\* WriteHeader of the wrappers (health_check.sh:418-424, 544-550)
WriteHeader(w, code) ==
  IF w.sent THEN w ELSE [w EXCEPT !.sent = TRUE, !.status = code, !.wire = w.hdr]

\* Write of the wrappers (health_check.sh:426-432, 552-559)
Write(w, b) == [WriteHeader(w, 200) EXCEPT !.body = @ \o b]

\* &responseRecorder{statusCode: http.StatusOK, body: &[]byte{}} (health_check.sh:378-382)
NewRecorder == [StatusCode |-> 200, Body |-> <<>>]

\* the metrics sink: the events recorded for the request in flight
NoEvents == [hit |-> 0, miss |-> 0, drop |-> 0, request |-> 0, active |-> 0]

RecordCacheHit(m) == [m EXCEPT !.hit = @ + 1]

RecordCacheMiss(m) == [m EXCEPT !.miss = @ + 1]

RecordRateLimitDropTwice(m) == [m EXCEPT !.drop = @ + 2]

RecordRateLimitDrop(m) == [m EXCEPT !.drop = @ + 1]

RecordRequest(m) == [m EXCEPT !.request = @ + 1]

\* history: the store calls and upstream dispatches made for the request
NoCalls == [get |-> 0, set |-> 0, upstream |-> 0]

\* the body of the 429 reply, one chunk
ErrorBody == <<"{\"error\":\"rate limit exceeded\"}">>

Digits == <<"0", "1", "2", "3", "4", "5", "6", "7", "8", "9">>

\* fmt.Sprintf("%.0f", d.Seconds()) of a duration of ms milliseconds: the
\* nearest whole number of seconds, a tie going to the even one
Sprintf0f(ms) ==
  LET q == ms \div 1000
      r == ms % 1000
      n == IF r > 500 \/ (r = 500 /\ q % 2 = 1) THEN q + 1 ELSE q
  IN Digits[n + 1]

\* handler = mw(handler): the new handler runs mw first and then the old one
Wrap(mw, handler) == <<mw>> \o handler

\* createProxyHandler (health_check.sh:304-323): the stages in the order a
\* request runs through them
createProxyHandler(cfg) ==
  LET h0 == <<"mux">>
      h1 == Wrap("requestID", h0)
      h2 == Wrap("logging", h1)
      h3 == IF cfg.metrics THEN Wrap("metrics", h2) ELSE h2
      h4 == IF cfg.limiter THEN Wrap("rateLimit", h3) ELSE h3
  IN h4

\* uuid.New().String(), where the runs do not tell the ids apart
RequestID == "id"

\* uuid.New().String() after the id last generated, where they do: an id
\* differs from the one before it
NewUUID(last) ==
  CASE last = "id-1" -> "id-2"
    [] last = "id-2" -> "id-1"
    [] OTHER -> RequestID

pipeFrame == <<ret, recency, th, hist, fb, pf>>

\* the server accepts a request
Receive(r) ==
  /\ px.pc \in {"idle", "done"}
  /\ px' = [px EXCEPT !.pc = "serve", !.pos = 1, !.req = r, !.w = NewWriter,
                      !.entered = <<>>, !.m = NoEvents, !.calls = NoCalls,
                      !.denied = FALSE, !.set = PipeNoEntry, !.rec = NewRecorder]
  /\ UNCHANGED <<c, now, tb, heap, pipeFrame>>

\* the stage the request is about to run
Stage(s) == px.pc = "serve" /\ px.handler[px.pos] = s

\* next.ServeHTTP(w, r)
Enter(p, s) == [p EXCEPT !.entered = Append(@, s), !.pos = @ + 1]

\* return without calling next
Reply(p, s) == [p EXCEPT !.entered = Append(@, s), !.pc = "unwind"]

\* rateLimitMiddleware (health_check.sh:512-533)
RateLimitMiddleware ==
  /\ Stage("rateLimit")
  /\ LET k == px.req.client
         a == IF Lookup(k) = Nil THEN FreeAddr(k) ELSE Lookup(k)
         bk == IF Lookup(k) = Nil THEN NewBucket ELSE heap[a]
         ok == AllowRet(bk, now)
         n == Refill(bk, now)
         after == [tokens |-> IF ok THEN n - TokenUnit ELSE n, lastRefill |-> now]
         h1 == HeaderSet(px.w.hdr, "Content-Type", "application/json")
         h2 == HeaderSet(h1, "Retry-After", Sprintf0f(WaitTime(after.tokens)))
         w3 == Write(WriteHeader([px.w EXCEPT !.hdr = h2], 429), ErrorBody)
     IN /\ tb' = [tb EXCEPT !.buckets[k] = a]
        /\ heap' = [heap EXCEPT ![a] = after]
        /\ px' = IF ok
                   THEN Enter(px, "rateLimit")
                   ELSE Reply([px EXCEPT !.m = IF px.cfg.metrics THEN RecordRateLimitDrop(@) ELSE @,
                                         !.w = w3, !.denied = TRUE],
                              "rateLimit")
  /\ UNCHANGED <<c, now, pipeFrame>>

\* metricsMiddleware up to next.ServeHTTP (health_check.sh:473-481)
MetricsMiddleware ==
  /\ Stage("metrics")
  /\ px' = Enter([px EXCEPT !.m.active = @ + 1], "metrics")
  /\ UNCHANGED <<c, now, tb, heap, pipeFrame>>

\* loggingMiddleware up to next.ServeHTTP (health_check.sh:451-457)
LoggingMiddleware ==
  /\ Stage("logging")
  /\ px' = Enter(px, "logging")
  /\ UNCHANGED <<c, now, tb, heap, pipeFrame>>

\* requestIDMiddleware (health_check.sh:436-445)
RequestIDMiddleware ==
  /\ Stage("requestID")
  /\ px' = Enter([px EXCEPT !.uuid = NewUUID(@),
                            !.w.hdr = HeaderSet(@, "X-Request-ID", NewUUID(px.uuid))],
                  "requestID")
  /\ UNCHANGED <<c, now, tb, heap, pipeFrame>>

\* entry.ETag == ifNoneMatch, of the entry a successful Get returned
NotModifiedNever(g, inm) == FALSE

NotModified(g, inm) == g.ok /\ g.entry.ETag = inm

\* the reply from a stored entry (health_check.sh:357-367)
HitReplyNoHeaders(w, e) ==
  LET h2 == HeaderSet(w.hdr, "X-Cache", "HIT")
      h3 == IF e.ETag # "" THEN HeaderSet(h2, "ETag", e.ETag) ELSE h2
  IN Write(WriteHeader([w EXCEPT !.hdr = h3], e.StatusCode), e.Body)

HitReply(w, e) ==
  LET h1 == AddAll(w.hdr, e.Headers)
      h2 == HeaderSet(h1, "X-Cache", "HIT")
      h3 == IF e.ETag # "" THEN HeaderSet(h2, "ETag", e.ETag) ELSE h2
  IN Write(WriteHeader([w EXCEPT !.hdr = h3], e.StatusCode), e.Body)

\* handleProxy up to the upstream dispatch (health_check.sh:336-374)
HandleProxyLookup ==
  /\ Stage("mux")
  /\ LET r == px.req
         k == CacheKey(HTTPRequest(r), <<>>)
         p == [px EXCEPT !.entered = Append(@, "mux")]
     IN IF px.cfg.cache /\ IsCacheable(r.method, 0, NoHeaders)
          THEN LET g1 == GetStep(c, now, k)
                   c1 == IF r.inm # "" THEN g1.c ELSE c
                   g2 == GetStep(c1, now, k)
                   hit == IF px.cfg.metrics THEN RecordCacheHit(px.m) ELSE px.m
               IN IF r.inm # "" /\ NotModified(g1, r.inm)
                    THEN /\ c' = g1.c
                         /\ px' = [p EXCEPT !.m = hit, !.calls.get = @ + 1,
                                            !.w = WriteHeader(@, 304), !.pc = "unwind"]
                    ELSE /\ c' = g2.c
                         /\ px' = IF g2.ok
                                    THEN [p EXCEPT !.m = hit,
                                                   !.calls.get = @ + (IF r.inm # "" THEN 2 ELSE 1),
                                                   !.w = HitReply(@, g2.entry), !.pc = "unwind"]
                                    ELSE [p EXCEPT !.m = IF px.cfg.metrics
                                                           THEN RecordCacheMiss(@) ELSE @,
                                                   !.calls.get = @ + (IF r.inm # "" THEN 2 ELSE 1),
                                                   !.pc = "upstream"]
          ELSE /\ c' = c
               /\ px' = [p EXCEPT !.pc = "upstream"]
  /\ UNCHANGED <<now, tb, heap, pipeFrame>>

\* the Entry handleProxy builds from the recorded response (health_check.sh:392-400)
NewEntryNoETag(rec, H, t) ==
  [StatusCode |-> rec.StatusCode, Headers |-> H, Body |-> rec.Body,
   ETag |-> "", ExpiresAt |-> t + ParseTTL(H, DefaultTTL, t), Size |-> Len(rec.Body)]

NewEntry(rec, H, t) ==
  [StatusCode |-> rec.StatusCode, Headers |-> H, Body |-> rec.Body,
   ETag |-> GenerateETag(rec.Body), ExpiresAt |-> t + ParseTTL(H, DefaultTTL, t),
   Size |-> Len(rec.Body)]

\* handleProxy from the upstream dispatch on (health_check.sh:378-407); the
\* proxy copies the upstream's headers, writes its status and then its body
\* through the recorder
HandleProxyUpstream(u) ==
  /\ px.pc = "upstream"
  /\ LET r == px.req
         h1 == IF u.cc # <<>> THEN HeaderAdd(px.w.hdr, "Cache-Control", u.cc) ELSE px.w.hdr
         w1 == WriteHeader([px.w EXCEPT !.hdr = h1], u.status)
         w2 == IF u.body # <<>> THEN Write(w1, u.body) ELSE w1
         rec == [NewRecorder EXCEPT !.StatusCode = u.status, !.Body = @ \o u.body]
         store == px.cfg.cache /\ IsCacheable(r.method, rec.StatusCode, w2.hdr)
         e == NewEntry(rec, w2.hdr, now)
         w4 == [w2 EXCEPT !.hdr = HeaderSet(HeaderSet(@, "X-Cache", "MISS"), "ETag", e.ETag)]
     IN /\ c' = IF store THEN EvictLoop(Insert(c, CacheKey(HTTPRequest(r), <<>>), e), <<>>).c ELSE c
        /\ px' = [px EXCEPT !.pc = "unwind", !.rec = rec,
                            !.calls.upstream = @ + 1,
                            !.calls.set = @ + (IF store THEN 1 ELSE 0),
                            !.set = IF store THEN e ELSE @,
                            !.w = IF store THEN w4 ELSE w2]
  /\ UNCHANGED <<now, tb, heap, pipeFrame>>

\* the same for a request that carries If-None-Match and that the upstream
\* answers 304: proxy.ServeHTTP forwards the request's headers
HandleProxyRevalidate(u) ==
  /\ px.req.inm # ""
  /\ HandleProxyUpstream(u)

\* the middleware the request entered return, innermost first: logging writes
\* its line, metrics records the request (health_check.sh:459-467, 477, 483-500)
Unwind ==
  /\ px.pc = "unwind"
  /\ px' = [px EXCEPT !.pc = "done",
                      !.m = IF \E i \in 1..Len(px.entered) : px.entered[i] = "metrics"
                              THEN [RecordRequest(@) EXCEPT !.active = @ - 1] ELSE @]
  /\ UNCHANGED <<c, now, tb, heap, pipeFrame>>

PipeTick ==
  /\ now < MaxPipeTime
  /\ now' = now + 1
  /\ UNCHANGED <<c, tb, heap, px, pipeFrame>>

(* ------------------------- pipeline properties ------------------------ *)

\* whether the store holds an entry under the request's key that a Get at this
\* instant returns, and that entry
HasStored(r) ==
  /\ CacheKey(HTTPRequest(r), <<>>) \in c.items
  /\ ~Expired(c.lru[ElemOf(c, CacheKey(HTTPRequest(r), <<>>))].entry, now)

StoredFor(r) == c.lru[ElemOf(c, CacheKey(HTTPRequest(r), <<>>))].entry

\* the request has its reply
Replied == px.pc \in {"unwind", "done"}

Abs(x) == IF x < 0 THEN 0 - x ELSE x

\* C12: a request the limiter denied is answered 429 with the JSON error body
\* and a Retry-After that is Wait(key) to the nearest second; one drop event is
\* recorded on the metrics sink (none when there is no sink), and the request
\* reaches neither the handler, the store nor the upstream.
C12_Denied ==
  px.denied =>
    /\ Replied
    /\ px.w.sent /\ px.w.status = 429 /\ px.w.body = ErrorBody
    /\ \E n \in 0..9 :
         /\ px.w.wire["Retry-After"] = <<Digits[n + 1]>>
         /\ 2 * Abs(n * 1000 - WaitRet(tb.buckets[px.req.client])) <= 1000
    /\ px.m.drop = (IF px.cfg.metrics THEN 1 ELSE 0)
    /\ px.calls = NoCalls
    /\ \A i \in 1..Len(px.entered) : px.entered[i] # "mux"

\* C12 witness: a denied request, one drop recorded, Retry-After of one second.
C12_Witness ==
  /\ px.denied /\ px.pc = "done"
  /\ px.cfg.metrics /\ px.m.drop = 1
  /\ px.w.wire["Retry-After"] = <<"1">>
  /\ px.cfg.cache

\* the place of a stage in the order request-id, logging, metrics, rate
\* limiting, handler
Rank(s) ==
  CASE s = "requestID" -> 1 [] s = "logging" -> 2 [] s = "metrics" -> 3
    [] s = "rateLimit" -> 4 [] s = "mux" -> 5

\* C13 (as claimed): the stages run in the order request-id, logging, metrics,
\* rate limiting, handler, and a request the limiter denies has passed
\* request-id, logging and metrics.
C13_StageOrder ==
  /\ \A i, j \in 1..Len(px.entered) :
       i < j => Rank(px.entered[i]) < Rank(px.entered[j])
  /\ px.denied =>
       \A s \in {"requestID", "logging"} :
         \E i \in 1..Len(px.entered) : px.entered[i] = s

\* C14: with caching on, a GET or HEAD whose If-None-Match equals the ETag of
\* the unexpired entry under its key is answered 304 with no body, one cache
\* hit is recorded (none when there is no sink), and nothing goes upstream.
C14_NotModified ==
  [][(/\ HandleProxyLookup
      /\ px.cfg.cache /\ px.req.method \in {"GET", "HEAD"}
      /\ HasStored(px.req)
      /\ px.req.inm # "" /\ px.req.inm = StoredFor(px.req).ETag)
       => /\ px'.w.sent /\ px'.w.status = 304 /\ px'.w.body = <<>>
          /\ px'.m.hit = (IF px.cfg.metrics THEN 1 ELSE 0)
          /\ px'.m.miss = 0
          /\ px'.calls.upstream = 0 /\ px'.pc = "unwind"]_vars

\* C14 witness: a 304 reply with its one hit recorded.
C14_Witness ==
  /\ px.pc = "unwind" /\ px.w.sent /\ px.w.status = 304
  /\ px.req.inm # "" /\ px.m.hit = 1 /\ px.calls.upstream = 0

\* C15: with an unexpired entry under the request's key and no 304, the reply
\* has the entry's status and body, every stored header value, X-Cache: HIT
\* and the stored ETag; one hit is recorded (none when there is no sink),
\* nothing goes upstream and the stored entry is as it was.
C15_Hit ==
  [][(/\ HandleProxyLookup
      /\ px.cfg.cache /\ px.req.method \in {"GET", "HEAD"}
      /\ HasStored(px.req)
      /\ px.req.inm # StoredFor(px.req).ETag)
       => LET e == StoredFor(px.req)
              k == CacheKey(HTTPRequest(px.req), <<>>)
          IN /\ px'.w.sent /\ px'.w.status = e.StatusCode /\ px'.w.body = e.Body
             /\ \A n \in HNames \ {"X-Cache", "ETag"} :
                  \A i \in 1..Len(e.Headers[n]) :
                    \E j \in 1..Len(px'.w.wire[n]) : px'.w.wire[n][j] = e.Headers[n][i]
             /\ px'.w.wire["X-Cache"] = <<"HIT">>
             /\ e.ETag # "" => px'.w.wire["ETag"] = <<e.ETag>>
             /\ px'.m.hit = (IF px.cfg.metrics THEN 1 ELSE 0)
             /\ px'.m.miss = 0
             /\ px'.calls.upstream = 0 /\ px'.pc = "unwind"
             /\ k \in c'.items /\ c'.lru[ElemOf(c', k)].entry = e]_vars

\* C15 witness: a hit served to a request whose If-None-Match did not match,
\* from an entry stored with a Cache-Control header.
C15_Witness ==
  /\ px.pc = "unwind" /\ px.w.wire["X-Cache"] = <<"HIT">>
  /\ px.req.inm # "" /\ px.m.hit = 1
  /\ px.w.wire["Cache-Control"] # <<>>
  /\ px.w.status = 404

\* the step is handleProxy's upstream dispatch and what follows it
IsUpstream == px.pc = "upstream" /\ px'.pc = "unwind"

\* IsCacheable of the request's method and the captured status and headers,
\* with caching on
Storable == px.cfg.cache /\ IsCacheable(px.req.method, px'.rec.StatusCode, px'.w.hdr)

\* the entry has the captured status and body, the body's ETag, and expires
\* ParseTTL after the capture
AsCaptured(e) ==
  /\ e.StatusCode = px'.rec.StatusCode
  /\ e.Body = px'.rec.Body
  /\ e.ETag = GenerateETag(px'.rec.Body)
  /\ e.ExpiresAt = now + ParseTTL(px'.w.hdr, DefaultTTL, now)

\* C16 (as claimed): after the upstream response is captured, the store holds
\* an entry under the request's key iff caching is on and IsCacheable holds of
\* the method and the captured status and headers, and that entry is as
\* captured.
C16_StoreOnMiss ==
  [][IsUpstream =>
       LET k == CacheKey(HTTPRequest(px.req), <<>>)
       IN /\ (k \in c'.items) <=> Storable
          /\ k \in c'.items => AsCaptured(c'.lru[ElemOf(c', k)].entry)]_vars

\* C16 (amended): Set is called, with the entry as captured, iff caching is on
\* and IsCacheable holds; the store holds that entry afterwards iff moreover
\* the body is no larger than the store's capacity.
C16_StoreOnMissFits ==
  [][IsUpstream =>
       LET k == CacheKey(HTTPRequest(px.req), <<>>)
       IN /\ (px'.calls.set = 1) <=> Storable
          /\ px'.calls.set \in {0, 1}
          /\ px'.calls.set = 1 => AsCaptured(px'.set)
          /\ (k \in c'.items) <=> (Storable /\ Len(px'.rec.Body) <= c.maxSize)
          /\ k \in c'.items => c'.lru[ElemOf(c', k)].entry = px'.set]_vars

\* C16 witness: a 404 with max-age has been captured and is in the store.
C16_Witness ==
  /\ px.pc = "unwind" /\ px.calls.set = 1
  /\ px.rec.StatusCode = 404
  /\ HasStored(px.req) /\ StoredFor(px.req) = px.set
  /\ px.set.ExpiresAt = now + PipeSecond
  /\ px.set.ETag = GenerateETag(Bytes(1))

\* the request went through handleProxy
Handled == \E i \in 1..Len(px.entered) : px.entered[i] = "mux"

\* C17 (as claimed): with caching on, every reply of a request that went
\* through the handler has X-Cache: HIT or X-Cache: MISS.
C17_XCache ==
  (px.cfg.cache /\ Handled /\ Replied) =>
    px.w.sent /\ px.w.wire["X-Cache"] \in {<<"HIT">>, <<"MISS">>}

\* C18 (as claimed): the reply to a miss whose response was just stored has
\* X-Cache: MISS and the ETag of the stored entry.
C18_MissHeaders ==
  (Replied /\ px.calls.set = 1 /\ HasStored(px.req) /\ StoredFor(px.req) = px.set) =>
    /\ px.w.wire["X-Cache"] = <<"MISS">>
    /\ px.w.wire["ETag"] = <<px.set.ETag>>

\* the request in flight goes past the store: its method is neither GET nor
\* HEAD, or caching is disabled
Bypass == px.req.method \notin {"GET", "HEAD"} \/ ~px.cfg.cache

\* C34: a request whose method is neither GET nor HEAD, and any request when
\* caching is disabled, never reads, inserts, replaces or removes a cache
\* entry, whatever the upstream returns, and once the handler has answered
\* it, it has been dispatched upstream exactly once.
C34_Bypass ==
  [][(px.pc \in {"serve", "upstream", "unwind"} /\ Bypass) =>
       /\ c' = c
       /\ px'.calls.get = 0 /\ px'.calls.set = 0
       /\ px'.calls.upstream <= 1
       /\ (px'.pc \in {"unwind", "done"} /\ ~px'.denied) => px'.calls.upstream = 1]_vars

\* a POST has been answered from upstream with a 200 that carries no
\* Cache-Control, with caching enabled and an entry of an earlier GET in the
\* store
C34_Witness ==
  /\ px.pc = "done"
  /\ px.cfg.cache
  /\ px.req.method = "POST"
  /\ px.calls = [get |-> 0, set |-> 0, upstream |-> 1]
  /\ px.rec.StatusCode = 200
  /\ px.w.wire["Cache-Control"] = <<>>
  /\ CacheLen = 1

\* C37: a request without If-None-Match is never answered 304 by the
\* handler from its cache: a 304 the upstream gave to an earlier conditional
\* request is not stored and replayed as a hit.
C37_No304Replay ==
  (px.pc \in {"unwind", "done"} /\ px.req.inm = "" /\ px.calls.upstream = 0 /\ px.w.sent)
    => px.w.status # 304

\* C38: the reply to a cache hit carries no per-request header value of the
\* request that populated the entry: its X-Request-ID values are the id of
\* the request being answered and nothing else.
C38_NoInterference ==
  (/\ px.pc \in {"unwind", "done"}
   /\ ~px.denied
   /\ px.calls.get > 0
   /\ px.calls.upstream = 0
   /\ px.w.status # 304)
    => \A i \in 1..Len(px.w.wire["X-Request-ID"]) : px.w.wire["X-Request-ID"][i] = px.uuid

(* ----------------- policy functions and key extractors ---------------- *)
(* CacheKey, IsCacheable, ParseTTL (internal/cache/cache.go) and           *)
(* IPKeyExtractor (internal/ratelimit), called one at a time.              *)

\* Longest header value and longest peer address, in symbols.
MaxLen == 3

\* Longest path after the leading "/", in symbols.
MaxPathLen == 2

\* Last instant of the clock ParseTTL reads.
MaxPolicyTime == 1

\* the strings of at most n symbols of A
Strs(A, n) == UNION {[1..k -> A] : k \in 0..n}

\* net.SplitHostPort of an address without brackets: the last colon parts
\* host and port; no colon, or a colon in the host, is an error
SplitHostPort(addr) ==
  LET colons == {i \in 1..Len(addr) : addr[i] = ":"}
      i == CHOOSE x \in colons : \A y \in colons : x >= y
  IN IF colons = {} \/ Cardinality(colons) > 1 THEN [err |-> TRUE, host |-> <<>>]
     ELSE [err |-> FALSE, host |-> SubSeq(addr, 1, i - 1)]

\* IPKeyExtractor (ratelimit_test.go:317-340)
IPKeyExtractor(r) ==
  LET xff == HeaderGet(r.Header, "X-Forwarded-For")
      commas == {idx \in 1..Len(xff) : xff[idx] = ","}
      idx == CHOOSE x \in commas : \A y \in commas : x <= y
      xri == HeaderGet(r.Header, "X-Real-IP")
      hp == SplitHostPort(r.RemoteAddr)
  IN IF xff # <<>> THEN (IF commas # {} THEN SubSeq(xff, 1, idx - 1) ELSE xff)
     ELSE IF xri # <<>> THEN xri
     ELSE IF hp.err THEN r.RemoteAddr
     ELSE hp.host

PolicyStatuses == {0, 200, 304, 399, 400, 404, 405, 499, 500}

DirectiveSyms == {",", " ", "no-store", "NO-STORE", "no-cache", "private", "public"}

TTLSyms == {",", " ", "max-age=", "MAX-AGE=", "1", "-1", "9999999999", "99999999999999999999"}

\* the values of a header: absent, one value, or two short values on two lines
HeaderValues(A) ==
  {<<>>} \cup {<<v>> : v \in Strs(A, MaxLen) \ {<<>>}}
         \cup {<<v, w>> : v \in Strs(A, 1) \ {<<>>}, w \in Strs(A, 1) \ {<<>>}}

ExpiresValues == {<<>>, <<<<"@1">>>>, <<<<"@3">>>>, <<<<"tomorrow">>>>}

PolicyHeaders(A, E) ==
  {[NoHeaders EXCEPT !["Cache-Control"] = cc, !["Expires"] = ex] :
     cc \in HeaderValues(A), ex \in E}

Paths == {<<"/">> \o s : s \in Strs({"a", "|"}, MaxPathLen)}

KeyRequests ==
  {[Method |-> <<me>>, Path |-> p, RawQuery |-> q,
    Header |-> [NoReqHeaders EXCEPT !["Accept"] = ac], RemoteAddr |-> <<"host", ":", "80">>] :
     me \in {"GET", "POST"}, p \in Paths, q \in {<<>>, <<"a">>},
     ac \in {<<>>, <<<<"gzip">>>>}}

IPSyms == {"203.0.113.1", "198.51.100.1", ",", " "}

PeerRequests ==
  {[Method |-> <<"GET">>, Path |-> <<"/">>, RawQuery |-> <<>>,
    Header |-> [NoReqHeaders EXCEPT !["X-Forwarded-For"] = xff, !["X-Real-IP"] = xri],
    RemoteAddr |-> ra] :
     xff \in {<<>>} \cup {<<v>> : v \in Strs(IPSyms, MaxLen) \ {<<>>}},
     xri \in {<<>>, <<<<"192.0.2.7">>>>},
     ra \in Strs({"host", ":", "80"}, MaxLen) \ {<<>>}}

policyFrame == <<cacheVars, limiterVars, px>>

\* a call of IsCacheable
CallIsCacheable(method, statusCode, H) ==
  /\ PolicyIdle
  /\ pf' = [op |-> "IsCacheable", method |-> method, statusCode |-> statusCode,
            headers |-> H, out |-> IsCacheable(method, statusCode, H)]
  /\ UNCHANGED <<now, policyFrame>>

\* a call of ParseTTL
CallParseTTL(H, defaultTTL) ==
  /\ PolicyIdle
  /\ pf' = [op |-> "ParseTTL", headers |-> H, defaultTTL |-> defaultTTL, at |-> now,
            out |-> ParseTTL(H, defaultTTL, now)]
  /\ UNCHANGED <<now, policyFrame>>

\* calls of CacheKey for two requests, with the same list of headers
CallCacheKey(r1, r2, varyHeaders) ==
  /\ PolicyIdle
  /\ pf' = [op |-> "CacheKey", r1 |-> r1, r2 |-> r2, varyHeaders |-> varyHeaders,
            out1 |-> CacheKey(r1, varyHeaders), out2 |-> CacheKey(r2, varyHeaders)]
  /\ UNCHANGED <<now, policyFrame>>

\* a call of IPKeyExtractor
CallIPKeyExtractor(r) ==
  /\ PolicyIdle
  /\ pf' = [op |-> "IPKeyExtractor", r |-> r, out |-> IPKeyExtractor(r)]
  /\ UNCHANGED <<now, policyFrame>>

\* APIKeyExtractor(headerName) (ratelimit_test.go:343-352): "apikey:" is one
\* symbol, the key follows it
APIKeyExtractor(headerName, r) ==
  LET key == HeaderGet(r.Header, headerName)
  IN IF key = <<>> THEN IPKeyExtractor(r) ELSE <<"apikey:">> \o key

APIKeys == {<<"secret123">>, <<"203.0.113.1">>}

\* requests that carry the API-key header
KeyedRequests ==
  {[Method |-> <<"GET">>, Path |-> <<"/">>, RawQuery |-> <<>>,
    Header |-> [NoReqHeaders EXCEPT !["X-API-Key"] = <<ak>>],
    RemoteAddr |-> <<"host", ":", "80">>] : ak \in APIKeys}

\* requests that do not, with what a client can put into the headers the IP
\* fallback reads
AnonymousRequests ==
  {[Method |-> <<"GET">>, Path |-> <<"/">>, RawQuery |-> <<>>,
    Header |-> [NoReqHeaders EXCEPT !["X-Forwarded-For"] = xff, !["X-Real-IP"] = xri],
    RemoteAddr |-> <<"host", ":", "80">>] :
     xff \in {<<>>} \cup {<<v>> : v \in Strs({"apikey:", "secret123", "203.0.113.1"}, 2) \ {<<>>}},
     xri \in {<<>>} \cup {<<v>> : v \in Strs({"apikey:", "secret123"}, 2) \ {<<>>}}}

\* the extractor applied to a request with the header and to one without
CallAPIKeyExtractor(r1, r2) ==
  /\ PolicyIdle
  /\ pf' = [op |-> "APIKeyExtractor", r1 |-> r1, r2 |-> r2,
            out1 |-> APIKeyExtractor("X-API-Key", r1),
            out2 |-> APIKeyExtractor("X-API-Key", r2)]
  /\ UNCHANGED <<now, policyFrame>>

\* the caller has taken the result
PolicyReturn ==
  /\ ~PolicyIdle
  /\ pf' = NoCall
  /\ UNCHANGED <<now, policyFrame>>

PolicyTick ==
  /\ PolicyIdle
  /\ now < MaxPolicyTime
  /\ now' = now + 1
  /\ UNCHANGED <<pf, policyFrame>>

(* ---------------- policy and key extractor properties ------------------ *)

\* C23: IsCacheable is true exactly when the method is GET or HEAD, the
\* status is below 400 or is 404, and no comma-separated, trimmed,
\* case-insensitively compared directive of the Cache-Control header equals
\* no-store, no-cache or private.
C23_IsCacheable ==
  pf.op = "IsCacheable" =>
    LET values == pf.headers["Cache-Control"]
        forbidden == {<<"no-store">>, <<"no-cache">>, <<"private">>}
    IN pf.out <=>
         /\ pf.method \in {"GET", "HEAD"}
         /\ pf.statusCode < 400 \/ pf.statusCode = 404
         /\ \A v \in 1..Len(values) : \A i \in 1..Len(Split(values[v])) :
              ToLower(TrimSpace(Split(values[v])[i])) \notin forbidden

\* C24: ParseTTL returns the max-age seconds when the Cache-Control value
\* has a max-age directive it can read; otherwise, whether or not a
\* Cache-Control header is present, the time left until Expires when that
\* parses as an HTTP date in the future; otherwise the default.
C24_ExpiresFallback ==
  pf.op = "ParseTTL" =>
    LET directives == Split(HeaderGet(pf.headers, "Cache-Control"))
        hits == MaxAgeHits(directives)
        first == CHOOSE i \in hits : \A j \in hits : i <= j
        expires == ParseTime(HeaderGet(pf.headers, "Expires"))
    IN IF hits # {}
         THEN pf.out = WrapInt(Atoi(Tail(TrimSpace(directives[first]))).n * PipeSecond)
       ELSE IF ~expires.err /\ expires.t > pf.at THEN pf.out = expires.t - pf.at
       ELSE pf.out = pf.defaultTTL

\* C25: for every Cache-Control value and every non-negative default,
\* ParseTTL returns a non-negative duration.
C25_NonNegative ==
  (pf.op = "ParseTTL" /\ pf.defaultTTL >= 0) => pf.out >= 0

\* what CacheKey may depend on: method, path, raw query and the values of
\* the listed headers
KeyTuple(r, varyHeaders) ==
  <<r.Method, r.Path, r.RawQuery,
    [i \in 1..Len(varyHeaders) |-> HeaderGet(r.Header, varyHeaders[i])]>>

\* the two requests of the call differ in path and in nothing else
DifferOnlyInPath ==
  /\ pf.r1.Path # pf.r2.Path
  /\ [pf.r1 EXCEPT !.Path = pf.r2.Path] = pf.r2

C27_IPKey ==
  pf.op = "IPKeyExtractor" =>
    LET xff == HeaderGet(pf.r.Header, "X-Forwarded-For")
        xri == HeaderGet(pf.r.Header, "X-Real-IP")
        hp == SplitHostPort(pf.r.RemoteAddr)
    IN pf.out = IF xff # <<>> THEN TrimSpace(Split(xff)[1])
                ELSE IF xri # <<>> THEN xri
                ELSE IF hp.err THEN pf.r.RemoteAddr
                ELSE hp.host

\* C39: the key the API-key extractor returns for a request with a non-empty
\* API-key header is never the key it returns for a request without the
\* header, whatever X-Forwarded-For or X-Real-IP that request sends.
C39_KeysDisjoint ==
  pf.op = "APIKeyExtractor" => pf.out1 # pf.out2

\* C40: the string CacheKey digests is an injective encoding of its inputs:
\* two requests that differ in method, path, raw query or the value of a
\* listed vary header never give the same '|'-joined string.
C40_Injective ==
  pf.op = "CacheKey" =>
    (KeyTuple(pf.r1, pf.varyHeaders) # KeyTuple(pf.r2, pf.varyHeaders)
       => Join(KeyParts(pf.r1, pf.varyHeaders)) # Join(KeyParts(pf.r2, pf.varyHeaders)))

(* --------------------------- specifications --------------------------- *)

CacheInit ==
  /\ c \in {NewMemoryCache(m) : m \in 1..MaxCap}
  /\ now = 0
  /\ ret = NoRet
  /\ recency = <<>>
  /\ LimiterIdle
  /\ FloatIdle
  /\ PipelineIdle
  /\ PolicyIdle

CacheNext ==
  \/ \E k \in Keys : Get(k)
  \/ \E k \in Keys, e \in Entries : Set(k, e)
  \/ \E k \in Keys : Delete(k)
  \/ Clear
  \/ CacheTick

SpecCache == CacheInit /\ [][CacheNext]_vars

\* the store together with a caller that writes to the entries it holds
AliasNext ==
  \/ CacheNext
  \/ \E e2 \in Entries : MutateReturned(e2)
  \/ \E k \in Keys, e2 \in Entries : MutatePassed(k, e2)

SpecAlias == CacheInit /\ [][AliasNext]_vars

LimiterInit ==
  /\ tb \in {NewTokenBucket(r, bu) : r \in Rates, bu \in 1..MaxBurst}
  /\ heap = [a \in Addrs |-> NoBucket]
  /\ th = [g \in Threads |-> IdleThread]
  /\ hist = [streak |-> [a \in Addrs |-> None], since |-> [k \in LKeys |-> None],
             admitted |-> [k \in LKeys |-> None]]
  /\ now = 0
  /\ CacheIdle
  /\ FloatIdle
  /\ PipelineIdle
  /\ PolicyIdle

LimiterNext ==
  \/ \E g \in Threads, k \in LKeys : AllowLookup(g, k)
  \/ \E g \in Threads : AllowRefill(g)
  \/ \E g \in Threads, k \in LKeys : WaitLookup(g, k)
  \/ \E g \in Threads : WaitRead(g)
  \/ Cleanup
  \/ LimiterTick

SpecLimiter == LimiterInit /\ [][LimiterNext]_vars

\* the limiter with its cleanup goroutine, its ticker and Stop
StopInit ==
  /\ tb \in {NewTokenBucketRunning(r, bu) : r \in Rates, bu \in 1..MaxBurst}
  /\ heap = [a \in Addrs |-> NoBucket]
  /\ th = [g \in Threads \cup {Sweeper} |->
             IF g = Sweeper THEN [IdleThread EXCEPT !.pc = "select"] ELSE IdleThread]
  /\ hist = [streak |-> [a \in Addrs |-> None], since |-> [k \in LKeys |-> None],
             admitted |-> [k \in LKeys |-> None]]
  /\ now = 0
  /\ CacheIdle
  /\ FloatIdle
  /\ PipelineIdle
  /\ PolicyIdle

StopNext ==
  \/ \E g \in Threads, k \in LKeys : AllowLookup(g, k)
  \/ \E g \in Threads : AllowRefill(g)
  \/ \E g \in Threads, k \in LKeys : WaitLookup(g, k)
  \/ \E g \in Threads : WaitRead(g)
  \/ TickerFire
  \/ SweepPass
  \/ SweepExit
  \/ Stop
  \/ LimiterTick

SpecStop == StopInit /\ [][StopNext]_vars

\* the same, with the ticker delivering its ticks and the goroutine taking
\* them: time.NewTicker(1 * time.Minute) fires for as long as it is not
\* stopped, and a goroutine blocked in select runs when a case is ready
SpecSweep == StopInit /\ [][StopNext]_vars /\ WF_vars(TickerFire) /\ WF_vars(SweepPass)

\* the limiter with its cleanup goroutine, the admissions of every key counted
RateInit ==
  /\ tb \in {NewTokenBucketRunning(r, bu) : r \in Rates, bu \in 1..MaxBurst}
  /\ heap = [a \in Addrs |-> NoBucket]
  /\ th = [g \in Threads \cup {Sweeper} |->
             IF g = Sweeper THEN [IdleThread EXCEPT !.pc = "select"] ELSE IdleThread]
  /\ hist = [streak |-> [a \in Addrs |-> None], since |-> [k \in LKeys |-> None],
             admitted |-> [k \in LKeys |-> 0]]
  /\ now = 0
  /\ CacheIdle
  /\ FloatIdle
  /\ PipelineIdle
  /\ PolicyIdle

SpecRate == RateInit /\ [][StopNext]_vars

\* the limiter with its locks
LocksInit ==
  /\ tb \in {NewTokenBucketLocked(r, bu) : r \in Rates, bu \in 1..MaxBurst}
  /\ heap = [a \in Addrs |-> NoBucket]
  /\ th = [g \in Goroutines |->
             IF g = Sweeper THEN [pc |-> "select", key |-> {}, b |-> Nil] ELSE IdleThread]
  /\ hist = <<>>
  /\ now = 0
  /\ CacheIdle
  /\ FloatIdle
  /\ PipelineIdle
  /\ PolicyIdle

AllowSteps(g) == AllowLock(g) \/ AllowUnlock(g) \/ AllowLockBucket(g) \/ AllowReturn(g)

WaitSteps(g) == WaitRLock(g) \/ WaitRUnlock(g) \/ WaitLockBucket(g) \/ WaitReturn(g)

SweepSteps ==
  \/ SweepReceive
  \/ SweepLock
  \/ SweepLockBucket
  \/ SweepUnlockBucket
  \/ SweepUnlock

LocksNext ==
  \/ \E g \in Threads, k \in LockKeys : AllowCall(g, k)
  \/ \E g \in Threads : AllowLock(g)
  \/ \E g \in Threads : AllowUnlock(g)
  \/ \E g \in Threads : AllowLockBucket(g)
  \/ \E g \in Threads : AllowReturn(g)
  \/ \E g \in Threads, k \in LockKeys : WaitCall(g, k)
  \/ \E g \in Threads : WaitRLock(g)
  \/ \E g \in Threads : WaitRUnlock(g)
  \/ \E g \in Threads : WaitLockBucket(g)
  \/ \E g \in Threads : WaitReturn(g)
  \/ LockedTickerFire
  \/ SweepReceive
  \/ SweepLock
  \/ SweepLockBucket
  \/ SweepUnlockBucket
  \/ SweepUnlock
  \/ LockedTick

\* a goroutine that can run does run, and a goroutine waiting for a mutex
\* that is released again and again gets it (sync.Mutex hands the lock to a
\* waiter that has been starved)
SpecLocks ==
  /\ LocksInit
  /\ [][LocksNext]_vars
  /\ \A g \in Threads : SF_vars(AllowSteps(g)) /\ SF_vars(WaitSteps(g))
  /\ SF_vars(SweepSteps)

FloatInit ==
  /\ PipelineIdle
  /\ PolicyIdle
  /\ fb \in {[rate |-> r, burst |-> bu, bucket |-> NoFloatBucket, since |-> None] :
               r \in FloatRates, bu \in 1..MaxBurst}
  /\ now = 0
  /\ CacheIdle
  /\ LimiterIdle

FloatNext ==
  \/ AllowFloat
  \/ FloatTick

SpecFloat == FloatInit /\ [][FloatNext]_vars

PipelineInit ==
  /\ px \in {[cfg |-> cfg, handler |-> createProxyHandler(cfg), pc |-> "idle", pos |-> 1,
              req |-> [method |-> "GET", inm |-> "", client |-> "a"], w |-> NewWriter,
              entered |-> <<>>, m |-> NoEvents, calls |-> NoCalls, denied |-> FALSE,
              set |-> PipeNoEntry, rec |-> NewRecorder, uuid |-> RequestID] :
               cfg \in [metrics : BOOLEAN, cache : BOOLEAN, limiter : BOOLEAN]}
  /\ c = NewMemoryCache(PipeMaxSize)
  /\ tb \in {NewTokenBucket(r, bu) : r \in PipeRates, bu \in PipeBursts}
  /\ heap = [a \in Addrs |-> NoBucket]
  /\ th = [g \in Threads |-> IdleThread]
  /\ hist = <<>>
  /\ now = 0
  /\ ret = NoRet
  /\ recency = <<>>
  /\ FloatIdle
  /\ PolicyIdle

PipelineNext ==
  \/ \E r \in Requests : Receive(r)
  \/ RateLimitMiddleware
  \/ MetricsMiddleware
  \/ LoggingMiddleware
  \/ RequestIDMiddleware
  \/ HandleProxyLookup
  \/ \E u \in Upstreams : HandleProxyUpstream(u)
  \/ Unwind
  \/ PipeTick

SpecPipeline == PipelineInit /\ [][PipelineNext]_vars

\* the pipeline with the request ids told apart
RequestIDInit ==
  /\ px \in {[cfg |-> cfg, handler |-> createProxyHandler(cfg), pc |-> "idle", pos |-> 1,
              req |-> [method |-> "GET", inm |-> "", client |-> "a"], w |-> NewWriter,
              entered |-> <<>>, m |-> NoEvents, calls |-> NoCalls, denied |-> FALSE,
              set |-> PipeNoEntry, rec |-> NewRecorder, uuid |-> "id-1"] :
               cfg \in [metrics : BOOLEAN, cache : BOOLEAN, limiter : BOOLEAN]}
  /\ c = NewMemoryCache(PipeMaxSize)
  /\ tb \in {NewTokenBucket(r, bu) : r \in PipeRates, bu \in PipeBursts}
  /\ heap = [a \in Addrs |-> NoBucket]
  /\ th = [g \in Threads |-> IdleThread]
  /\ hist = <<>>
  /\ now = 0
  /\ ret = NoRet
  /\ recency = <<>>
  /\ FloatIdle
  /\ PolicyIdle

SpecRequestIDs == RequestIDInit /\ [][PipelineNext]_vars

\* the pipeline in front of an upstream that honours If-None-Match: the proxy
\* forwards the header, and a conditional request can be answered 304
RevalidateNext ==
  \/ \E r \in Requests : Receive(r)
  \/ RateLimitMiddleware
  \/ MetricsMiddleware
  \/ LoggingMiddleware
  \/ RequestIDMiddleware
  \/ HandleProxyLookup
  \/ \E u \in Upstreams : HandleProxyUpstream(u)
  \/ \E u \in NotModifiedUpstreams : HandleProxyRevalidate(u)
  \/ Unwind
  \/ PipeTick

SpecRevalidate == PipelineInit /\ [][RevalidateNext]_vars

PolicyInit ==
  /\ PolicyIdle
  /\ now = 0
  /\ CacheIdle
  /\ LimiterIdle
  /\ FloatIdle
  /\ PipelineIdle

\* a call is made when the one before it has returned
PolicyNext ==
  \/ PolicyIdle /\ \E me \in Methods, st \in PolicyStatuses,
                      H \in PolicyHeaders(DirectiveSyms, {<<>>}) : CallIsCacheable(me, st, H)
  \/ PolicyIdle /\ \E H \in PolicyHeaders(TTLSyms, ExpiresValues), d \in {0, DefaultTTL} :
                     CallParseTTL(H, d)
  \/ PolicyIdle /\ \E r1 \in KeyRequests, r2 \in KeyRequests, vh \in {<<>>, <<"Accept">>} :
                     CallCacheKey(r1, r2, vh)
  \/ PolicyIdle /\ \E r \in PeerRequests : CallIPKeyExtractor(r)
  \/ PolicyIdle /\ \E r1 \in KeyedRequests, r2 \in AnonymousRequests : CallAPIKeyExtractor(r1, r2)
  \/ PolicyReturn
  \/ PolicyTick

SpecPolicy == PolicyInit /\ [][PolicyNext]_vars

====
